---- MODULE Spec2Model ----
(***************************************************************************)
(* E-signature subsystem of the solar CRM: field validation, the field-list *)
(* utilities, PDF embedding, the field click handlers of the PDF viewers    *)
(* and the public signing view.                                             *)
(*                                                                          *)
(* Numbers: percentages are integers; absolute page coordinates are kept    *)
(* as integers in units of 1/Scale of a PDF point, so that (x/100)*w and    *)
(* the 0.6 / 0.8 / 0.1 factors of the embedder are exact.  Floating-point   *)
(* rounding is not modelled.                                                *)
(* An optional number (a property that may be undefined) is <<>> when        *)
(* absent and <<n>> when present.  An optional string is the string         *)
(* Undefined when absent.                                                   *)
(***************************************************************************)
EXTENDS Integers, Sequences, FiniteSets, TLC

VARIABLES
    vField, vResult,                       \* validateFieldCoordinates under test
    uFields, uSignerId, uAll, uNext, uMine, uAfter, uDone,  \* field-list utilities under test
    eDoc, eFields, eBoxes, eOps, eFonts, eOut,  \* embedSignaturesInPDF: input, boxes, draw operations, outcome
    cField, cSigner, cMode, cPrompt, cHandler, cOut,  \* a field click handler under test
    sStatus, sSigned, sSequential,          \* the server: signer statuses, signed fields, sequential flag
    pLoading, pError, pSession, pFetching,  \* PublicSigningView: state and the fetch in flight
    pCurrentField, pShowSignaturePad,       \* PublicSigningView: currentField, showSignaturePad
    wCurrentField, wShowSignaturePad,       \* the viewer inside it: currentField, showSignaturePad
    hLast,                                   \* history: the last click or pad save and what it did
    hFetch,                                  \* history: how the last finished fetch of the session ended
    gType, gEditable, gPage, gX, gY, gViewer, gAdded,  \* handleDrop under test: the drop and the field added
    dStatus, dFields, dSigners,             \* the server: document status, stored fields, number of signers
    tMounted, tLoading, tFetching, tDocument, tSending,  \* DocumentSetupView: state and the fetch in flight
    qAdd, qRemove, qSend,                   \* field POSTs, field DELETEs and the send in flight
    hIssued,                                 \* history: the last request issued by the view
    mExisting, mSigners, mSigningOrder,     \* SignerSetupModal: existingSigners, signers, the sequential switch
    mPhase, mQueue,                         \* handleSave: where it is, the signers left to POST
    rSigners, rSequential,                  \* the server: stored signer workflows, sequential-signing flag
    hSave,                                   \* history: the last call of handleSave
    hModal,                                  \* history: the modal session and how the last handleSave ended
    kOpen, kTab, kStrokes, kTyped, kUploaded,  \* SignaturePad: isOpen, activeTab, the canvas, typedSignature, uploadedImage
    kSaves,                                 \* the calls of onSave so far
    hPad,                                    \* history: the last call of SignaturePad.handleSave
    yHashes,                                \* the last pair of contents hashed, with their hashes
    yNow, yTokens,                           \* Date.now(); the signing tokens generated so far
    nSigned, nSession, nPhase, nCall,        \* handleFieldSign: signatures stored, the view's session, the call in progress
    hSign                                    \* history: the last finished call of handleFieldSign

validateVars == << vField, vResult >>
utilVars     == << uFields, uSignerId, uAll, uNext, uMine, uAfter, uDone >>
embedVars    == << eDoc, eFields, eBoxes, eOps, eFonts, eOut >>

clickVars    == << cField, cSigner, cMode, cPrompt, cHandler, cOut >>

serverVars   == << sStatus, sSigned, sSequential >>
viewVars     == << pLoading, pError, pSession, pFetching, pCurrentField,
                   pShowSignaturePad, wCurrentField, wShowSignaturePad, hLast, hFetch >>
signingVars  == << serverVars, viewVars >>

dropVars     == << gType, gEditable, gPage, gX, gY, gViewer, gAdded >>

setupVars    == << dStatus, dFields, dSigners, tMounted, tLoading, tFetching,
                   tDocument, tSending, qAdd, qRemove, qSend, hIssued >>

signersVars  == << mExisting, mSigners, mSigningOrder, mPhase, mQueue,
                   rSigners, rSequential, hSave, hModal >>

padVars      == << kOpen, kTab, kStrokes, kTyped, kUploaded, kSaves, hPad >>

integrityVars == << yHashes, yNow, yTokens >>

fieldSignVars == << nSigned, nSession, nPhase, nCall, hSign >>

vars == << validateVars, utilVars, embedVars, clickVars, signingVars, dropVars, setupVars, signersVars, padVars, integrityVars, fieldSignVars >>

\* what each part of the model leaves alone
notValidate  == << utilVars, embedVars, clickVars, signingVars, dropVars, setupVars, signersVars, padVars, integrityVars, fieldSignVars >>
notUtil      == << validateVars, embedVars, clickVars, signingVars, dropVars, setupVars, signersVars, padVars, integrityVars, fieldSignVars >>
notEmbed     == << validateVars, utilVars, clickVars, signingVars, dropVars, setupVars, signersVars, padVars, integrityVars, fieldSignVars >>
notClick     == << validateVars, utilVars, embedVars, signingVars, dropVars, setupVars, signersVars, padVars, integrityVars, fieldSignVars >>
notSigning   == << validateVars, utilVars, embedVars, clickVars, dropVars, setupVars, signersVars, padVars, integrityVars, fieldSignVars >>
notDrop      == << validateVars, utilVars, embedVars, clickVars, signingVars, setupVars, signersVars, padVars, integrityVars, fieldSignVars >>
notSetup     == << validateVars, utilVars, embedVars, clickVars, signingVars, dropVars, signersVars, padVars, integrityVars, fieldSignVars >>
notSigners   == << validateVars, utilVars, embedVars, clickVars, signingVars, dropVars, setupVars, padVars, integrityVars, fieldSignVars >>
notPad       == << validateVars, utilVars, embedVars, clickVars, signingVars, dropVars, setupVars, signersVars, integrityVars, fieldSignVars >>
notIntegrity == << validateVars, utilVars, embedVars, clickVars, signingVars, dropVars, setupVars, signersVars, padVars, fieldSignVars >>
notFieldSign == << validateVars, utilVars, embedVars, clickVars, signingVars, dropVars, setupVars, signersVars, padVars, integrityVars >>

----------------------------------------------------------------------------
(* JavaScript values *)

Undefined == "<undefined>"

None    == << >>
Some(n) == << n >>
IsSome(o) == o # None
Val(o)  == o[1]

\* !n for an optional number: undefined and 0 are falsy
FalsyNum(o) == o = None \/ Val(o) = 0

\* !s for an optional string: undefined and "" are falsy
FalsyStr(s) == s = Undefined \/ s = ""

\* String.prototype.trim on the strings of the model (the only one with
\* surrounding white space is " ")
Trim(s) == IF s = " " THEN "" ELSE s

----------------------------------------------------------------------------
(* validateFieldCoordinates: src/esignature-utils.ts 48-62 *)

\* the zero test as a wrong guard would write it: only undefined is rejected
MissingOnly(o) == o = None

NotGiven(o) == FalsyNum(o)

\* a page-bounds test that forgets the size of the field
ExceedsIgnoringSize(pos, size) == Val(pos) > 100

Exceeds(pos, size) == Val(pos) + Val(size) > 100

validateFieldCoordinates(field) ==
    IF NotGiven(field.x) \/ NotGiven(field.y)
          \/ NotGiven(field.width) \/ NotGiven(field.height) THEN FALSE
    ELSE IF Val(field.x) < 0 \/ Val(field.x) > 100 THEN FALSE
    ELSE IF Val(field.y) < 0 \/ Val(field.y) > 100 THEN FALSE
    ELSE IF Val(field.width) <= 0 \/ Val(field.width) > 100 THEN FALSE
    ELSE IF Val(field.height) <= 0 \/ Val(field.height) > 100 THEN FALSE
    ELSE IF Exceeds(field.x, field.width) THEN FALSE
    ELSE IF Exceeds(field.y, field.height) THEN FALSE
    ELSE TRUE

\* percentages tried: below, on and above each edge of [0,100]
Percents == { -5, 0, 5, 50, 95, 100, 105 }

OptPercents == { None } \cup { Some(n) : n \in Percents }

ValidateInit ==
    /\ vField \in [ x : OptPercents, y : OptPercents,
                    width : OptPercents, height : OptPercents ]
    /\ vResult = "pending"

ValidateIdle ==
    /\ vField = [ x |-> None, y |-> None, width |-> None, height |-> None ]
    /\ vResult = "pending"

Validate ==
    /\ vResult = "pending"
    /\ vResult' = IF validateFieldCoordinates(vField) THEN "true" ELSE "false"
    /\ UNCHANGED << vField, notValidate >>

ValidateNext == Validate

----------------------------------------------------------------------------
(* Field-list utilities: src/esignature-utils.ts 248-281 and the signing    *)
(* view's own filters, src/public-signing-view.tsx 119-131.                 *)
(* A session field carries an optional signature; sigData is the            *)
(* signature's signatureData, Undefined when the field has no signature.    *)

\* the view hands its fields to the viewer with value = signature?.signatureData
ToViewerField(f) ==
    [ pageNumber |-> f.pageNumber, y |-> f.y, required |-> f.required,
      signerId |-> f.signerId, value |-> f.sigData,
      isSigned |-> f.sigData # Undefined ]

ToViewerFields(fields) == [ i \in DOMAIN fields |-> ToViewerField(fields[i]) ]

\* Array.prototype.filter: the kept indices of a list, in list order
RECURSIVE FilterIdx(_, _, _)
FilterIdx(fields, kept, i) ==
    IF i > Len(fields) THEN << >>
    ELSE IF i \in kept THEN << i >> \o FilterIdx(fields, kept, i + 1)
    ELSE FilterIdx(fields, kept, i + 1)

\* field => field.required && (!signerId || field.signerId === signerId)
CountedFor(field, signerId) ==
    field.required /\ (FalsyStr(signerId) \/ field.signerId = signerId)

\* field.value && field.value.trim() !== ''
HasValue(field) == ~FalsyStr(field.value) /\ Trim(field.value) # ""

areAllRequiredFieldsSigned(fields, signerId) ==
    \A i \in DOMAIN fields : CountedFor(fields[i], signerId) => HasValue(fields[i])

\* a.pageNumber - b.pageNumber, then a.y - b.y: negative when a sorts first
Compare(a, b) ==
    IF a.pageNumber # b.pageNumber THEN a.pageNumber - b.pageNumber ELSE a.y - b.y

\* first element of the stably sorted copy: the earliest index among the minima
FirstSorted(fields, idx) ==
    IF idx = << >> THEN None
    ELSE LET firsts == { k \in DOMAIN idx :
                            /\ \A j \in DOMAIN idx :
                                  Compare(fields[idx[k]], fields[idx[j]]) <= 0
                            /\ \A j \in 1 .. (k - 1) :
                                  Compare(fields[idx[j]], fields[idx[k]]) # 0 }
         IN  Some(idx[CHOOSE k \in firsts : TRUE])

\* result: index in the input list of the field returned, None for null;
\* after: the caller's list once the call has returned (filter copies, and
\* sort reorders the copy only)
getNextRequiredField(fields, signerId) ==
    LET outstanding == { i \in DOMAIN fields :
                            CountedFor(fields[i], signerId) /\ ~HasValue(fields[i]) }
        requiredFields == FilterIdx(fields, outstanding, 1)
    IN  [ result |-> FirstSorted(fields, requiredFields), after |-> fields ]

\* !field.signerId || field.signerId === session.signer.id
IsMine(field, me) == FalsyStr(field.signerId) \/ field.signerId = me

getMyFields(allFields, me) ==
    FilterIdx(allFields, { i \in DOMAIN allFields : IsMine(allFields[i], me) }, 1)

\* getMyFields().filter(field => field.required && !field.signature)
getRequiredFieldsForMe(allFields, me) ==
    LET mine == getMyFields(allFields, me)
    IN  FilterIdx(allFields,
                  { mine[k] : k \in { j \in DOMAIN mine :
                        /\ allFields[mine[j]].required
                        /\ allFields[mine[j]].sigData = Undefined } }, 1)

MaxFields == 2

Positions == { << 1, 10 >>, << 1, 50 >>, << 2, 10 >> }
SignerIds == { "s1", "s2" }
SigDatas  == { Undefined, "", " ", "sig" }

SessionFields ==
    { [ pageNumber |-> p[1], y |-> p[2], required |-> r, signerId |-> s, sigData |-> d ] :
        p \in Positions, r \in BOOLEAN, s \in SignerIds \cup { Undefined, "" },
        d \in SigDatas }

FieldLists == UNION { [ 1 .. n -> SessionFields ] : n \in 0 .. MaxFields }

UtilInit ==
    /\ uFields \in FieldLists
    /\ uSignerId \in SignerIds \cup { Undefined }
    /\ uAll = FALSE
    /\ uNext = None
    /\ uMine = << >>
    /\ uAfter = ToViewerFields(uFields)
    /\ uDone = { }

UtilIdle ==
    /\ uFields = << >>
    /\ uSignerId = Undefined
    /\ uAll = FALSE
    /\ uNext = None
    /\ uMine = << >>
    /\ uAfter = << >>
    /\ uDone = { }

CallAllSigned ==
    /\ "all" \notin uDone
    /\ uAll' = areAllRequiredFieldsSigned(ToViewerFields(uFields), uSignerId)
    /\ uDone' = uDone \cup { "all" }
    /\ UNCHANGED << uFields, uSignerId, uNext, uMine, uAfter, notUtil >>

CallNextRequired ==
    /\ "next" \notin uDone
    /\ LET r == getNextRequiredField(ToViewerFields(uFields), uSignerId)
       IN  /\ uNext' = r.result
           /\ uAfter' = r.after
    /\ uDone' = uDone \cup { "next" }
    /\ UNCHANGED << uFields, uSignerId, uAll, uMine, notUtil >>

\* the signing view always has a signer: session.signer.id
CallRequiredForMe ==
    /\ "mine" \notin uDone
    /\ uSignerId # Undefined
    /\ uMine' = getRequiredFieldsForMe(uFields, uSignerId)
    /\ uDone' = uDone \cup { "mine" }
    /\ UNCHANGED << uFields, uSignerId, uAll, uNext, uAfter, notUtil >>

UtilNext == CallAllSigned \/ CallNextRequired \/ CallRequiredForMe

----------------------------------------------------------------------------
(* Claims about validateFieldCoordinates (checked under SpecValidate) *)

AnyMissing(f) == f.x = None \/ f.y = None \/ f.width = None \/ f.height = None

\* one of x<0, y<0, x+w>100, y+h>100, w<=0, h<=0 holds of a field that has
\* all four numbers
OutOfBounds(f) ==
    \/ Val(f.x) < 0
    \/ Val(f.y) < 0
    \/ Val(f.x) + Val(f.width) > 100
    \/ Val(f.y) + Val(f.height) > 100
    \/ Val(f.width) <= 0
    \/ Val(f.height) <= 0

\* the field geometry invariant of the data model
InBounds(f) ==
    /\ ~AnyMissing(f)
    /\ \A o \in { f.x, f.y, f.width, f.height } : Val(o) >= 0 /\ Val(o) <= 100
    /\ Val(f.width) > 0
    /\ Val(f.height) > 0
    /\ Val(f.x) + Val(f.width) <= 100
    /\ Val(f.y) + Val(f.height) <= 100

\* C2: validateFieldCoordinates returns false for every field with a missing
\* number and for every field with x<0, y<0, x+width>100, y+height>100,
\* width<=0 or height<=0.
C2_RejectsInvalid ==
    (vResult # "pending" /\ (AnyMissing(vField) \/ OutOfBounds(vField)))
        => vResult = "false"

\* a field rejected only because it runs over the right or bottom page edge
C2_Witness ==
    /\ vResult = "false"
    /\ ~AnyMissing(vField)
    /\ \A o \in { vField.x, vField.y, vField.width, vField.height } :
          Val(o) > 0 /\ Val(o) <= 100
    /\ Val(vField.x) + Val(vField.width) > 100

\* C3 (as claimed): validateFieldCoordinates returns true for every field
\* that satisfies the geometry invariant, x = 0 and y = 0 included.
C3_AcceptsValid ==
    (vResult # "pending" /\ InBounds(vField)) => vResult = "true"

----------------------------------------------------------------------------
(* Claims about the field-list utilities (checked under SpecFields) *)

\* fieldsForSigner of the specification: assigned to the signer, or shared
ForSigner(f, signerId) == f.signerId = signerId \/ FalsyStr(f.signerId)

\* a value that is absent or blank
EmptyValue(f) == FalsyStr(f.value) \/ Trim(f.value) = ""

\* the signer's outstanding required fields, as indices of the list
OutstandingFor(fields, signerId) ==
    { i \in DOMAIN fields :
        ForSigner(fields[i], signerId) /\ fields[i].required /\ EmptyValue(fields[i]) }

\* C4 (as claimed): for a signer, areAllRequiredFieldsSigned is true iff no
\* required field that is assigned to the signer or shared has an empty value,
\* and it agrees with getRequiredFieldsForMe being empty.
C4_AllSignedCountsSharedFields ==
    (uSignerId # Undefined /\ { "all", "mine" } \subseteq uDone) =>
        /\ uAll <=> (OutstandingFor(ToViewerFields(uFields), uSignerId) = { })
        /\ uAll <=> (uMine = << >>)

\* C5 (as claimed): getNextRequiredField returns null exactly when the signer
\* has no outstanding required field, otherwise an outstanding required field
\* with the least (pageNumber, y), and the input list is left as it was.
C5_NextRequiredIsFirstOutstanding ==
    (uSignerId # Undefined /\ "next" \in uDone) =>
        LET fields == ToViewerFields(uFields)
            out    == OutstandingFor(fields, uSignerId)
        IN  /\ (uNext = None) <=> (out = { })
            /\ uNext # None =>
                  /\ Val(uNext) \in out
                  /\ \A j \in out : Compare(fields[Val(uNext)], fields[j]) <= 0
            /\ uAfter = fields

----------------------------------------------------------------------------
(* embedSignaturesInPDF: src/esignature-utils.ts 77-183 *)

\* absolute coordinates are integers in units of 1/Scale point
Scale == 10000

\* (pct / 100) * extent
PctOf(pct, extent) == pct * extent * (Scale \div 100)

\* the y of a box measured from the top edge, without the flip to the
\* bottom-left origin of PDF
TopDownY(field, page) == PctOf(field.y, page.height)

\* the flip without the height of the box: the y of its top edge
FlippedTopY(field, page) == page.height * Scale - PctOf(field.y, page.height)

\* pageHeight - (y/100)*pageHeight - (height/100)*pageHeight
FlippedY(field, page) ==
    page.height * Scale - PctOf(field.y, page.height) - PctOf(field.height, page.height)

\* lines 103-106: the absolute box of a field on a page
AbsBox(field, page) ==
    [ x      |-> PctOf(field.x, page.width),
      y      |-> FlippedY(field, page),
      width  |-> PctOf(field.width, page.width),
      height |-> PctOf(field.height, page.height) ]

Min(a, b) == IF a < b THEN a ELSE b

\* signature.value.startsWith('data:image/')
IsImageDataUrl(value) ==
    value \in { "data:image/png;base64,ok", "data:image/png;base64,bad",
                "data:image/jpeg;base64,ok" }

\* dataURLToBytes, then embedPng / embedJpg chosen by value.includes('png'):
\* whether the image decodes without throwing
Decodes(value) ==
    value \in { "data:image/png;base64,ok", "data:image/jpeg;base64,ok" }

DrawOp(kind, fieldIdx, pageIdx, x, y, width, height, size, text, font) ==
    [ op |-> kind, field |-> fieldIdx, page |-> pageIdx, x |-> x, y |-> y,
      width |-> width, height |-> height, size |-> size, text |-> text,
      font |-> font ]

\* an exception on its way out of the loops is the entry "throw"
Throws(ops) == \E k \in DOMAIN ops : ops[k].op = "throw"

\* lines 112-120, the try block: decode, embed and draw the image
DecodeAndDraw(i, p, field, b) ==
    IF Decodes(field.value)
    THEN << DrawOp("image", i, p, b.x, b.y, b.width, b.height, 0, field.value, "") >>
    ELSE << DrawOp("throw", i, p, b.x, b.y, 0, 0, 0, "", "") >>

\* lines 121-133, the catch block: the placeholder label
Placeholder(i, p, b) ==
    << DrawOp("text", i, p, b.x, b.y + b.height \div 2, 0, 0,
              12 * Scale, "[SIGNATURE]", "HelveticaBold") >>

\* lines 108-135 with the try block left without its catch
SignatureOpsUncaught(i, p, field, b) ==
    IF ~IsImageDataUrl(field.value) THEN << >> ELSE DecodeAndDraw(i, p, field, b)

\* lines 108-135: SIGNATURE / INITIALS
SignatureOps(i, p, field, b) ==
    IF ~IsImageDataUrl(field.value) THEN << >>
    ELSE LET tried == DecodeAndDraw(i, p, field, b)
         IN  IF Throws(tried) THEN Placeholder(i, p, b) ELSE tried

\* lines 136-148: TEXT / DATE
TextOps(i, p, field, b) ==
    LET fontSize == Min((b.height * 6) \div 10, 12 * Scale)
    IN  << DrawOp("text", i, p, b.x, b.y + b.height \div 2 - fontSize \div 2,
                  b.width, 0, fontSize, field.value, "Helvetica") >>

\* lines 149-174 with the test of the stored value left out
CheckboxOpsAlwaysMarked(i, p, field, b) ==
    LET checkSize == (Min(b.width, b.height) * 8) \div 10
    IN  << DrawOp("rect", i, p, b.x, b.y, checkSize, checkSize, 0, "", ""),
           DrawOp("text", i, p, b.x + checkSize \div 10, b.y + checkSize \div 10,
                  0, 0, (checkSize * 8) \div 10, "checkmark", "HelveticaBold") >>

\* lines 149-174: CHECKBOX
CheckboxOps(i, p, field, b) ==
    LET checkSize == (Min(b.width, b.height) * 8) \div 10
    IN  << DrawOp("rect", i, p, b.x, b.y, checkSize, checkSize, 0, "", "") >>
        \o ( IF field.value = "checked"
             THEN << DrawOp("text", i, p, b.x + checkSize \div 10, b.y + checkSize \div 10,
                            0, 0, (checkSize * 8) \div 10, "checkmark", "HelveticaBold") >>
             ELSE << >> )

\* the value test of line 100 with the test for the empty string forgotten
ValueMissing(field) == field.value = Undefined

\* if (!signature.value) continue
Skipped(field) == FalsyStr(field.value)

\* lines 99-175: the draw operations of one field of page p
FieldOps(i, p, field, page) ==
    IF Skipped(field) THEN << >>
    ELSE LET b == AbsBox(field, page)
         IN  CASE field.type \in { "SIGNATURE", "INITIALS" } -> SignatureOps(i, p, field, b)
               [] field.type \in { "TEXT", "DATE" }          -> TextOps(i, p, field, b)
               [] field.type = "CHECKBOX"                      -> CheckboxOps(i, p, field, b)
               [] OTHER                                        -> << >>

\* the inner loop: the fields of the group of page number n, in input order
RECURSIVE GroupOrder(_, _, _)
GroupOrder(fields, n, i) ==
    IF i > Len(fields) THEN << >>
    ELSE ( IF fields[i].pageNumber = n THEN << i >> ELSE << >> )
         \o GroupOrder(fields, n, i + 1)

\* the outer loop: Object.entries lists the integer keys of signaturesByPage
\* in ascending order; a group whose page does not exist is passed over
\* (pageNum < 0 || pageNum >= pages.length, pageNum = n - 1)
RECURSIVE VisitOrder(_, _, _, _)
VisitOrder(fields, pages, n, last) ==
    IF n > last THEN << >>
    ELSE ( IF n - 1 < 0 \/ n - 1 >= Len(pages) THEN << >>
           ELSE GroupOrder(fields, n, 1) ) \o VisitOrder(fields, pages, n + 1, last)

MaxPageNumber(fields) ==
    IF fields = << >> THEN 0
    ELSE CHOOSE m \in { fields[i].pageNumber : i \in DOMAIN fields } :
            \A i \in DOMAIN fields : fields[i].pageNumber <= m

\* the fields the loops reach, in the order they reach them
Visited(fields, pages) == VisitOrder(fields, pages, 0, MaxPageNumber(fields))

RECURSIVE OpsOf(_, _, _, _)
OpsOf(fields, pages, order, k) ==
    IF k > Len(order) THEN << >>
    ELSE LET i == order[k]
             ops == FieldOps(i, fields[i].pageNumber, fields[i],
                             pages[fields[i].pageNumber])
         IN  IF Throws(ops) THEN ops
             ELSE ops \o OpsOf(fields, pages, order, k + 1)

\* the locals x, y, width, height of lines 103-106, one entry per field that
\* passes the value test of line 100
RECURSIVE BoxesOf(_, _, _, _)
BoxesOf(fields, pages, order, k) ==
    IF k > Len(order) THEN << >>
    ELSE LET i == order[k]
         IN  ( IF Skipped(fields[i]) THEN << >>
               ELSE << [ field |-> i, page |-> fields[i].pageNumber,
                         box |-> AbsBox(fields[i], pages[fields[i].pageNumber]) ] >> )
             \o BoxesOf(fields, pages, order, k + 1)

EmbedOps(fields, pages) == OpsOf(fields, pages, Visited(fields, pages), 1)

EmbedBoxes(fields, pages) == BoxesOf(fields, pages, Visited(fields, pages), 1)

\* fonts embedded into the document by the draw operations
FontsOf(ops) == { ops[k].font : k \in DOMAIN ops } \ { "" }

\* a load that reports every byte string as a document
LoadNeverThrows(doc) == FALSE

\* PDFDocument.load(pdfBytes) throws for bytes that do not parse
LoadThrows(doc) == ~doc.parses

\* an exception reaches the catch of line 178
EmbedThrows(doc, fields) == LoadThrows(doc) \/ Throws(EmbedOps(fields, doc.pages))

\* --- inputs
Letter    == [ width |-> 612, height |-> 792 ]
Landscape == [ width |-> 842, height |-> 595 ]

\* a document that parses has pages; base bytes that do not parse have none
Documents ==
    { [ parses |-> TRUE,  pages |-> << Letter >> ],
      [ parses |-> TRUE,  pages |-> << Letter, Landscape >> ],
      [ parses |-> TRUE,  pages |-> << Landscape, Letter >> ],
      [ parses |-> FALSE, pages |-> << >> ] }

Boxes == { [ x |-> 10, y |-> 80, width |-> 20, height |-> 8 ],
           [ x |-> 0,  y |-> 0,  width |-> 100, height |-> 100 ] }

TypedValues ==
    { << "SIGNATURE", Undefined >>,
      << "SIGNATURE", "data:image/png;base64,ok" >>,
      << "SIGNATURE", "data:image/png;base64,bad" >>,
      << "SIGNATURE", "John Doe" >>,
      << "INITIALS",  "data:image/jpeg;base64,ok" >>,
      << "TEXT",      "John Doe" >>,
      << "DATE",      "" >>,
      << "DATE",      "11/5/2026" >>,
      << "CHECKBOX",  "checked" >>,
      << "CHECKBOX",  "unchecked" >>,
      << "CHECKBOX",  "" >> }

PageNumbers == { 0, 1, 2 }

EmbedFields ==
    { [ type |-> tv[1], value |-> tv[2], pageNumber |-> n,
        x |-> b.x, y |-> b.y, width |-> b.width, height |-> b.height ] :
        tv \in TypedValues, n \in PageNumbers, b \in Boxes }

MaxEmbedFields == 2

EmbedInit ==
    /\ eDoc \in Documents
    /\ eFields \in UNION { [ 1 .. n -> EmbedFields ] : n \in 0 .. MaxEmbedFields }
    /\ eBoxes = << >>
    /\ eOps = << >>
    /\ eFonts = { }
    /\ eOut = "pending"

EmbedIdle ==
    /\ eDoc = [ parses |-> FALSE, pages |-> << >> ]
    /\ eFields = << >>
    /\ eBoxes = << >>
    /\ eOps = << >>
    /\ eFonts = { }
    /\ eOut = "pending"

\* PDFDocument.load succeeds: the loops run and pdfDoc.save() returns bytes
EmbedReturns ==
    /\ eOut = "pending"
    /\ ~EmbedThrows(eDoc, eFields)
    /\ eBoxes' = EmbedBoxes(eFields, eDoc.pages)
    /\ eOps' = EmbedOps(eFields, eDoc.pages)
    /\ eFonts' = FontsOf(eOps')
    /\ eOut' = "bytes"
    /\ UNCHANGED << eDoc, eFields, notEmbed >>

\* PDFDocument.load throws: caught at line 178 and rethrown as
\* Error('Failed to embed signatures in PDF'); nothing is returned
EmbedFails ==
    /\ eOut = "pending"
    /\ EmbedThrows(eDoc, eFields)
    /\ eOut' = "error"
    /\ UNCHANGED << eDoc, eFields, eBoxes, eOps, eFonts, notEmbed >>

EmbedNext == EmbedReturns \/ EmbedFails

----------------------------------------------------------------------------
(* Claims about embedSignaturesInPDF (checked under SpecEmbed) *)

HasCapturedValue(f) == f.value # Undefined /\ f.value # ""

OnExistingPage(f, pages) == f.pageNumber >= 1 /\ f.pageNumber <= Len(pages)

\* the Coordinate Mapper of the specification, in units of 1/Scale point
MapX(f, pg)      == (f.x * pg.width * Scale) \div 100
MapWidth(f, pg)  == (f.width * pg.width * Scale) \div 100
MapHeight(f, pg) == (f.height * pg.height * Scale) \div 100
MapY(f, pg)      == pg.height * Scale - (f.y * pg.height * Scale) \div 100 - MapHeight(f, pg)

\* C1: every field that has a captured value and lies on an existing page is
\* stamped at absX = (x/100)*pageWidth, absWidth = (width/100)*pageWidth,
\* absHeight = (height/100)*pageHeight, absY = pageHeight - (y/100)*pageHeight
\* - absHeight, taken from the dimensions of the field's own page: that is the
\* one box computed for the field, an image is drawn exactly in it, every other
\* draw operation of the field starts at absX and lies within it, and the
\* field (10, 80, 20, 8) on a 612 x 792 page gets 61.2, 95.04, 122.4, 63.36.
C1_StampedAtMappedBox ==
    eOut = "bytes" =>
        /\ \A i \in DOMAIN eFields :
              LET f == eFields[i] IN
              (HasCapturedValue(f) /\ OnExistingPage(f, eDoc.pages)) =>
                 LET pg == eDoc.pages[f.pageNumber]
                     mine == { k \in DOMAIN eBoxes : eBoxes[k].field = i }
                 IN  /\ Cardinality(mine) = 1
                     /\ \A k \in mine :
                           /\ eBoxes[k].page = f.pageNumber
                           /\ eBoxes[k].box.x = MapX(f, pg)
                           /\ eBoxes[k].box.y = MapY(f, pg)
                           /\ eBoxes[k].box.width = MapWidth(f, pg)
                           /\ eBoxes[k].box.height = MapHeight(f, pg)
                     /\ ( /\ << f.x, f.y, f.width, f.height >> = << 10, 80, 20, 8 >>
                          /\ pg = [ width |-> 612, height |-> 792 ] )
                        => \A k \in mine :
                              eBoxes[k].box = [ x |-> 612000, y |-> 950400,
                                                width |-> 1224000, height |-> 633600 ]
        /\ \A k \in DOMAIN eOps :
              LET op == eOps[k]
                  f  == eFields[op.field]
                  pg == eDoc.pages[f.pageNumber]
              IN  /\ HasCapturedValue(f) /\ OnExistingPage(f, eDoc.pages)
                  /\ op.page = f.pageNumber
                  /\ op.x >= MapX(f, pg)
                  /\ op.x + op.width <= MapX(f, pg) + MapWidth(f, pg)
                  /\ op.y >= MapY(f, pg)
                  /\ op.y + op.height <= MapY(f, pg) + MapHeight(f, pg)
                  /\ op.op \in { "image", "rect" } => op.x = MapX(f, pg) /\ op.y = MapY(f, pg)
                  /\ op.op = "image" =>
                        op.width = MapWidth(f, pg) /\ op.height = MapHeight(f, pg)
                  /\ (op.op = "text" /\ op.text # "checkmark") => op.x = MapX(f, pg)

\* a two-page document with pages of different sizes, an image stamped on
\* each page, one of them the field of the example on the 612 x 792 page
C1_Witness ==
    /\ eOut = "bytes"
    /\ Len(eDoc.pages) = 2
    /\ \E j, k \in DOMAIN eOps :
          /\ eOps[j].op = "image" /\ eOps[k].op = "image"
          /\ eOps[j].page = 1 /\ eOps[k].page = 2
          /\ eDoc.pages[eOps[j].page] = [ width |-> 612, height |-> 792 ]
          /\ eOps[j].x = 612000 /\ eOps[j].y = 950400
          /\ eOps[j].width = 1224000 /\ eOps[j].height = 633600

----------------------------------------------------------------------------
(* The field click handlers:                                                *)
(*   EnhancedPDFViewer.handleFieldClick  src/document-details-view.tsx 923-947 *)
(*   PDFViewer.handleFieldClick          src/unnamed/part_005 116-141       *)
(*   PublicSigningView.handleFieldClick  src/public-signing-view.tsx 173-200 *)
(* A handler's effects: pad (setShowSignaturePad(true)), current            *)
(* (setCurrentField called), update (the value handed to onFieldUpdate,     *)
(* Undefined when it is not called), save (the value handed to              *)
(* handleFieldSign, which issues the POST to /api/esignature/signatures),   *)
(* toast (the notification shown).                                          *)

Effects(pad, current, update, save, toast) ==
    [ pad |-> pad, current |-> current, update |-> update, save |-> save,
      toast |-> toast ]

NoEffects == Effects(FALSE, FALSE, Undefined, Undefined, "")

\* new Date().toLocaleDateString()
Today == "11/5/2026"

\* an ownership test that lets every field through
AnyField(field, currentSignerId) == TRUE

\* field.signerId === currentSignerId || !field.signerId
OwnOrShared(field, currentSignerId) ==
    field.signerId = currentSignerId \/ FalsyStr(field.signerId)

\* the branch on field.type shared by the two viewers' handlers
ViewerFill(field, promptValue) ==
    CASE field.type \in { "SIGNATURE", "INITIALS" } ->
            Effects(TRUE, TRUE, Undefined, Undefined, "")
      [] field.type = "DATE" ->
            Effects(FALSE, TRUE, Today, Undefined, "Date field filled")
      [] field.type = "TEXT" ->
            IF ~FalsyStr(promptValue)
            THEN Effects(FALSE, TRUE, promptValue, Undefined, "Text field filled")
            ELSE Effects(FALSE, TRUE, Undefined, Undefined, "")
      [] field.type = "CHECKBOX" ->
            Effects(FALSE, TRUE, IF field.value = "checked" THEN "" ELSE "checked",
                    Undefined, "Checkbox toggled")
      [] OTHER -> Effects(FALSE, TRUE, Undefined, Undefined, "")

EnhancedHandleFieldClick(field, isSigningMode, currentSignerId, promptValue) ==
    IF ~isSigningMode THEN NoEffects
    ELSE IF OwnOrShared(field, currentSignerId) THEN ViewerFill(field, promptValue)
    ELSE Effects(FALSE, FALSE, Undefined, Undefined,
                 "This field is assigned to another signer")

PDFViewerHandleFieldClick(field, isSigningMode, currentSignerId, promptValue) ==
    IF ~isSigningMode THEN NoEffects
    ELSE IF field.signerId = currentSignerId \/ FalsyStr(field.signerId)
         THEN ViewerFill(field, promptValue)
    ELSE Effects(FALSE, FALSE, Undefined, Undefined,
                 "This field is assigned to another signer")

\* what the handler reads of its argument when the argument is a field id
\* (a string): every property read of a string here is undefined
IdArgument(fieldId) ==
    [ id |-> fieldId, type |-> Undefined, signerId |-> Undefined,
      signature |-> FALSE, value |-> Undefined ]

\* field.signerId && field.signerId !== session?.signer.id
OthersField(field, signerId) ==
    ~FalsyStr(field.signerId) /\ field.signerId # signerId

PublicHandleFieldClick(field, signerId, promptValue) ==
    IF field.signature
    THEN Effects(FALSE, FALSE, Undefined, Undefined, "This field has already been signed")
    ELSE IF OthersField(field, signerId)
    THEN Effects(FALSE, FALSE, Undefined, Undefined,
                 "This field is assigned to another signer")
    ELSE CASE field.type \in { "SIGNATURE", "INITIALS" } ->
                 Effects(TRUE, TRUE, Undefined, Undefined, "")
           [] field.type = "DATE" ->
                 Effects(FALSE, TRUE, Undefined, Today, "")
           [] field.type = "TEXT" ->
                 IF ~FalsyStr(promptValue)
                 THEN Effects(FALSE, TRUE, Undefined, promptValue, "")
                 ELSE Effects(FALSE, TRUE, Undefined, Undefined, "")
           [] field.type = "CHECKBOX" ->
                 Effects(FALSE, TRUE, Undefined,
                         IF field.value = "checked" THEN "" ELSE "checked", "")
           [] OTHER -> Effects(FALSE, TRUE, Undefined, Undefined, "")

\* --- inputs
FieldTypes == { "SIGNATURE", "INITIALS", "DATE", "TEXT", "CHECKBOX" }

\* the stored values a field can show: none, a signature image, a date or
\* text, a ticked checkbox
StoredValues == { Undefined, "data:image/png;base64,ok", "checked", "John Doe" }

\* a field as the signing view hands it to the viewer: the session field
\* with value = signature?.signatureData and isSigned = !!signature
ClickFields ==
    { [ id |-> "f1", type |-> t, signerId |-> s, signature |-> (v # Undefined),
        value |-> v, isSigned |-> (v # Undefined) ] :
        t \in FieldTypes, s \in SignerIds \cup { Undefined, "" }, v \in StoredValues }

PromptValues == { Undefined, "", "hello" }

ClickInit ==
    /\ cField \in ClickFields
    /\ cSigner \in SignerIds \cup { Undefined }
    /\ cMode \in BOOLEAN
    /\ cPrompt \in PromptValues
    /\ cHandler = "none"
    /\ cOut = NoEffects

ClickIdle ==
    /\ cField = [ id |-> "f1", type |-> "SIGNATURE", signerId |-> Undefined,
                  signature |-> FALSE, value |-> Undefined, isSigned |-> FALSE ]
    /\ cSigner = Undefined
    /\ cMode = FALSE
    /\ cPrompt = Undefined
    /\ cHandler = "none"
    /\ cOut = NoEffects

ClickEnhanced ==
    /\ cHandler = "none"
    /\ cHandler' = "EnhancedPDFViewer"
    /\ cOut' = EnhancedHandleFieldClick(cField, cMode, cSigner, cPrompt)
    /\ UNCHANGED << cField, cSigner, cMode, cPrompt, notClick >>

ClickPDFViewer ==
    /\ cHandler = "none"
    /\ cHandler' = "PDFViewer"
    /\ cOut' = PDFViewerHandleFieldClick(cField, cMode, cSigner, cPrompt)
    /\ UNCHANGED << cField, cSigner, cMode, cPrompt, notClick >>

\* the signing view always shows its viewer in signing mode and has a signer
ClickPublic ==
    /\ cHandler = "none"
    /\ cMode
    /\ cSigner # Undefined
    /\ cHandler' = "PublicSigningView"
    /\ cOut' = PublicHandleFieldClick(cField, cSigner, cPrompt)
    /\ UNCHANGED << cField, cSigner, cMode, cPrompt, notClick >>

ClickNext == ClickEnhanced \/ ClickPDFViewer \/ ClickPublic

\* C8: in signing mode, a click on a field whose signerId is set and differs
\* from the current signer's id opens no signature pad and triggers neither a
\* field update nor a save-signature request, whichever handler takes it.
C8_OthersFieldUntouched ==
    ( /\ cHandler # "none"
      /\ cMode
      /\ ~FalsyStr(cField.signerId)
      /\ cField.signerId # cSigner )
    => ( /\ ~cOut.pad
         /\ ~cOut.current
         /\ cOut.update = Undefined
         /\ cOut.save = Undefined )

\* the viewer of the signing view took a click on an unsigned signature
\* field of another signer and did nothing but report it
C8_Witness ==
    /\ cHandler = "EnhancedPDFViewer"
    /\ cMode
    /\ cSigner = "s1"
    /\ cField.signerId = "s2"
    /\ cField.type = "SIGNATURE"
    /\ ~cField.isSigned
    /\ cOut = Effects(FALSE, FALSE, Undefined, Undefined,
                      "This field is assigned to another signer")

----------------------------------------------------------------------------
(* The public signing view (src/public-signing-view.tsx) with the viewer it *)
(* renders (src/document-details-view.tsx) and, behind the fetch calls, the *)
(* signing server.  The server's routes are not part of the sources at      *)
(* hand; the server is modelled from the specification's signer state       *)
(* machine and canAct.                                                      *)

\* the signer this view belongs to, and every signer's signing order
Me == "s2"
Signers == { "s1", "s2", "s3" }
SigningOrder(s) == CASE s = "s1" -> 1 [] s = "s2" -> 2 [] OTHER -> 3

\* the document's fields: a required signature of each signer and an
\* optional date that any signer may fill
DocFields ==
    << [ id |-> "fA", type |-> "SIGNATURE", pageNumber |-> 1, y |-> 10,
         required |-> TRUE, signerId |-> "s1" ],
       [ id |-> "fB", type |-> "SIGNATURE", pageNumber |-> 1, y |-> 50,
         required |-> TRUE, signerId |-> "s2" ],
       [ id |-> "fC", type |-> "DATE", pageNumber |-> 2, y |-> 10,
         required |-> FALSE, signerId |-> Undefined ] >>

\* the signature data stored for a signed field
StoredData(f) == IF f.type = "DATE" THEN Today ELSE "data:image/png;base64,ok"

\* canAct(signer): status SENT or VIEWED and, when signing is sequential,
\* every signer of lower order is SIGNED
CanAct(status, sequential, s) ==
    /\ status[s] \in { "SENT", "VIEWED" }
    /\ sequential =>
         \A t \in Signers : SigningOrder(t) < SigningOrder(s) => status[t] = "SIGNED"

\* the server answers 423 while a signer of lower order has not signed
Locked(status, sequential, s) ==
    sequential /\ \E t \in Signers :
                      SigningOrder(t) < SigningOrder(s) /\ status[t] # "SIGNED"

\* requiredOutstanding(signer): the required fields, assigned to the signer
\* or shared, that have no signature
RequiredOutstanding(signed, s) ==
    { i \in DOMAIN DocFields :
        /\ DocFields[i].required
        /\ IsMine(DocFields[i], s)
        /\ DocFields[i].id \notin signed }

\* the session the server returns for a signer
SessionOf(status, signed, sequential, s) ==
    [ loaded |-> TRUE,
      signer |-> [ id |-> s, status |-> status[s] ],
      allFields |-> [ i \in DOMAIN DocFields |->
          [ id |-> DocFields[i].id, type |-> DocFields[i].type,
            pageNumber |-> DocFields[i].pageNumber, y |-> DocFields[i].y,
            required |-> DocFields[i].required, signerId |-> DocFields[i].signerId,
            sigData |-> IF DocFields[i].id \in signed
                        THEN StoredData(DocFields[i]) ELSE Undefined ] ],
      canSign |-> CanAct(status, sequential, s),
      alreadySigned |-> (status[s] = "SIGNED") ]

\* useState<SigningSession | null>(null)
NoSession ==
    [ loaded |-> FALSE, signer |-> [ id |-> Undefined, status |-> Undefined ],
      allFields |-> << >>, canSign |-> FALSE, alreadySigned |-> FALSE ]

\* session.allFields.map(field => ({...field, value: field.signature?.signatureData,
\*                                  isSigned: !!field.signature}))
SigningViewerField(f) ==
    [ id |-> f.id, type |-> f.type, signerId |-> f.signerId,
      signature |-> (f.sigData # Undefined), value |-> f.sigData,
      isSigned |-> (f.sigData # Undefined) ]

\* the view gets past its loading, error and no-session screens
Rendered == ~pLoading /\ pError = Undefined /\ pSession.loaded

\* session.signer.status === 'SIGNED' || requiredFields.length === 0
isCompleted(session) ==
    \/ session.signer.status = "SIGNED"
    \/ Len(getRequiredFieldsForMe(session.allFields, session.signer.id)) = 0

NoEvent ==
    [ by |-> "none", field |-> Undefined, signed |-> FALSE, status |-> Undefined,
      actable |-> FALSE, current |-> FALSE, out |-> NoEffects ]

\* the last click or pad save: the field, whether the loaded session showed
\* it signed, the signer status the loaded session showed, whether canAct
\* held on the server, whether the loaded status was the server's, and the
\* effects (of the viewer's handler and of the view's handler it calls)
Event(by, field, out) ==
    [ by |-> by, field |-> field.id, signed |-> field.isSigned,
      status |-> pSession.signer.status,
      actable |-> CanAct(sStatus, sSequential, Me),
      current |-> (pSession.signer.status = sStatus[Me]),
      out |-> out ]

\* --- the view

\* the component mounts (the signing link is opened or reloaded):
\* useState initial values, then useEffect calls fetchSigningSession
ViewMounted ==
    /\ pLoading = TRUE
    /\ pError = Undefined
    /\ pSession = NoSession
    /\ pFetching = TRUE
    /\ pCurrentField = Undefined
    /\ pShowSignaturePad = FALSE
    /\ wCurrentField = Undefined
    /\ wShowSignaturePad = FALSE

SigningInit ==
    /\ sStatus = [ s \in Signers |-> "SENT" ]
    /\ sSigned = { }
    /\ sSequential \in BOOLEAN
    /\ ViewMounted
    /\ hLast = NoEvent
    /\ hFetch = "none"

SigningIdle ==
    /\ sStatus = [ s \in Signers |-> "PENDING" ]
    /\ sSigned = { }
    /\ sSequential = FALSE
    /\ ViewMounted
    /\ hLast = NoEvent
    /\ hFetch = "none"

Reload ==
    /\ ~pFetching
    /\ pLoading' = TRUE
    /\ pError' = Undefined
    /\ pSession' = NoSession
    /\ pFetching' = TRUE
    /\ pCurrentField' = Undefined
    /\ pShowSignaturePad' = FALSE
    /\ wCurrentField' = Undefined
    /\ wShowSignaturePad' = FALSE
    /\ hLast' = NoEvent
    /\ hFetch' = "none"
    /\ UNCHANGED << serverVars, notSigning >>

\* the signingToken prop changes while the view stays mounted (the page is
\* given another link to this signer's session): the effect on [signingToken]
\* calls fetchSigningSession again, which starts with setLoading(true); all
\* other state is kept.  One fetch is in flight at a time.
TokenChanged ==
    /\ ~pFetching
    /\ pLoading' = TRUE
    /\ pFetching' = TRUE
    /\ UNCHANGED << serverVars, pError, pSession, pCurrentField, pShowSignaturePad,
                    wCurrentField, wShowSignaturePad, hLast, hFetch, notSigning >>

\* fetchSigningSession, response.ok: setSession(data), finally setLoading(false);
\* the error is left as it is.  Serving the session marks a SENT signer VIEWED.
FetchOk ==
    /\ pFetching
    /\ ~Locked(sStatus, sSequential, Me)
    /\ sStatus' = IF sStatus[Me] = "SENT" THEN [ sStatus EXCEPT ![Me] = "VIEWED" ]
                  ELSE sStatus
    /\ pSession' = SessionOf(sStatus', sSigned, sSequential, Me)
    /\ pLoading' = FALSE
    /\ pFetching' = FALSE
    /\ hFetch' = "ok"
    /\ UNCHANGED << sSigned, sSequential, pError, pCurrentField, pShowSignaturePad,
                    wCurrentField, wShowSignaturePad, hLast, notSigning >>

\* fetchSigningSession, response.status === 423
FetchLocked ==
    /\ pFetching
    /\ Locked(sStatus, sSequential, Me)
    /\ pError' = "Please wait for previous signers to complete signing"
    /\ pLoading' = FALSE
    /\ pFetching' = FALSE
    /\ hFetch' = "failed"
    /\ UNCHANGED << serverVars, pSession, pCurrentField, pShowSignaturePad,
                    wCurrentField, wShowSignaturePad, hLast, notSigning >>

\* fetchSigningSession, the fetch throws
FetchFails ==
    /\ pFetching
    /\ pError' = "Failed to load signing session"
    /\ pLoading' = FALSE
    /\ pFetching' = FALSE
    /\ hFetch' = "failed"
    /\ UNCHANGED << serverVars, pSession, pCurrentField, pShowSignaturePad,
                    wCurrentField, wShowSignaturePad, hLast, notSigning >>

\* a click on a field of the rendered document: the viewer's handleFieldClick,
\* whose onFieldUpdate is the view's handleFieldClick and hands it the field id
ClickField(i, promptValue) ==
    /\ Rendered
    /\ ~wShowSignaturePad
    /\ LET field == SigningViewerField(pSession.allFields[i])
           viewer == EnhancedHandleFieldClick(field, TRUE, pSession.signer.id, promptValue)
           view == IF viewer.update = Undefined THEN NoEffects
                   ELSE PublicHandleFieldClick(IdArgument(field.id),
                                               pSession.signer.id, promptValue)
       IN  /\ wShowSignaturePad' = viewer.pad
           /\ wCurrentField' = IF viewer.current THEN field.id ELSE wCurrentField
           /\ pShowSignaturePad' = (pShowSignaturePad \/ view.pad)
           /\ pCurrentField' = IF view.current THEN field.id ELSE pCurrentField
           /\ hLast' = Event("click", field,
                             Effects(viewer.pad \/ view.pad, viewer.current,
                                     viewer.update, view.save, viewer.toast))
    /\ UNCHANGED << serverVars, pLoading, pError, pSession, pFetching, hFetch, notSigning >>

\* the viewer's handleSignatureSave, called by its signature pad:
\* onFieldUpdate(currentField.id, signatureData, signatureType)
PadSave ==
    /\ Rendered
    /\ wShowSignaturePad
    /\ wCurrentField # Undefined
    /\ LET i == CHOOSE j \in DOMAIN pSession.allFields :
                    pSession.allFields[j].id = wCurrentField
           field == SigningViewerField(pSession.allFields[i])
           view == PublicHandleFieldClick(IdArgument(field.id), pSession.signer.id,
                                          Undefined)
       IN  /\ pShowSignaturePad' = (pShowSignaturePad \/ view.pad)
           /\ pCurrentField' = IF view.current THEN field.id ELSE pCurrentField
           /\ hLast' = Event("padSave", field,
                             Effects(view.pad, FALSE, "data:image/png;base64,ok",
                                     view.save, "Signature added successfully"))
    /\ wShowSignaturePad' = FALSE
    /\ wCurrentField' = Undefined
    /\ UNCHANGED << serverVars, pLoading, pError, pSession, pFetching, hFetch, notSigning >>

\* the viewer's pad is closed without saving
PadClose ==
    /\ Rendered
    /\ wShowSignaturePad
    /\ wShowSignaturePad' = FALSE
    /\ wCurrentField' = Undefined
    /\ UNCHANGED << serverVars, pLoading, pError, pSession, pFetching, pCurrentField,
                    pShowSignaturePad, hLast, hFetch, notSigning >>

\* handleDeclineDocument, confirmed and accepted by the server: the signer
\* becomes DECLINED and the session is fetched again (a refused request
\* only shows a toast)
Decline ==
    /\ Rendered
    /\ ~wShowSignaturePad
    /\ ~isCompleted(pSession)
    /\ CanAct(sStatus, sSequential, Me)
    /\ sStatus' = [ sStatus EXCEPT ![Me] = "DECLINED" ]
    /\ pLoading' = TRUE
    /\ pFetching' = TRUE
    /\ wCurrentField' = Undefined
    /\ UNCHANGED << sSigned, sSequential, pError, pSession, pCurrentField,
                    pShowSignaturePad, wShowSignaturePad, hLast, hFetch, notSigning >>

\* --- the server, driven by the signers' other requests

\* another signer opens the signing link
OtherViews(s) ==
    /\ s # Me
    /\ sStatus[s] = "SENT"
    /\ ~Locked(sStatus, sSequential, s)
    /\ sStatus' = [ sStatus EXCEPT ![s] = "VIEWED" ]
    /\ UNCHANGED << sSigned, sSequential, viewVars, notSigning >>

\* a signature of signer s on one of the signer's or the shared fields is stored
SignatureStored(s, i) ==
    /\ CanAct(sStatus, sSequential, s)
    /\ IsMine(DocFields[i], s)
    /\ DocFields[i].id \notin sSigned
    /\ sSigned' = sSigned \cup { DocFields[i].id }
    /\ UNCHANGED << sStatus, sSequential, viewVars, notSigning >>

\* VIEWED -> SIGNED, only once nothing required is outstanding for the signer
SignerSigned(s) ==
    /\ CanAct(sStatus, sSequential, s)
    /\ sStatus[s] = "VIEWED"
    /\ RequiredOutstanding(sSigned, s) = { }
    /\ sStatus' = [ sStatus EXCEPT ![s] = "SIGNED" ]
    /\ UNCHANGED << sSigned, sSequential, viewVars, notSigning >>

\* another signer declines
OtherDeclines(s) ==
    /\ s # Me
    /\ CanAct(sStatus, sSequential, s)
    /\ sStatus' = [ sStatus EXCEPT ![s] = "DECLINED" ]
    /\ UNCHANGED << sSigned, sSequential, viewVars, notSigning >>

ClickSome == \E i \in DOMAIN DocFields, p \in PromptValues : ClickField(i, p)
OtherViewsSome == \E s \in Signers : OtherViews(s)
SignatureStoredSome == \E s \in Signers, i \in DOMAIN DocFields : SignatureStored(s, i)
SignerSignedSome == \E s \in Signers : SignerSigned(s)
OtherDeclinesSome == \E s \in Signers : OtherDeclines(s)

SigningNext ==
    \/ Reload
    \/ TokenChanged
    \/ FetchOk
    \/ FetchLocked
    \/ FetchFails
    \/ ClickSome
    \/ PadSave
    \/ PadClose
    \/ Decline
    \/ OtherViewsSome
    \/ SignatureStoredSome
    \/ SignerSignedSome
    \/ OtherDeclinesSome

\* the last click or pad save opened a pad, issued a field update or issued
\* a save-signature request
Acted ==
    /\ hLast.by # "none"
    /\ \/ hLast.out.pad
       \/ hLast.out.update # Undefined
       \/ hLast.out.save # Undefined

\* C6: the view reports the document as completed only when no required
\* field of any signer is left without a value.
C6_CompleteMeansAllRequiredFilled ==
    (Rendered /\ isCompleted(pSession))
    => \A i \in DOMAIN pSession.allFields :
          pSession.allFields[i].required => pSession.allFields[i].sigData # Undefined

C9_SignedFieldNotRefilled ==
    (hLast.by = "click" /\ hLast.signed)
    => ( /\ ~hLast.out.pad
         /\ hLast.out.update = Undefined
         /\ hLast.out.save = Undefined )

----------------------------------------------------------------------------
(* Further claims about embedSignaturesInPDF (checked under SpecEmbed) *)

\* the draw operations of field i, in the order they were performed
OpsFor(ops, i) == SelectSeq(ops, LAMBDA o : o.field = i)

Anonymous(ops) == [ k \in DOMAIN ops |-> [ ops[k] EXCEPT !.field = 0 ] ]

IsSignatureType(f) == f.type \in { "SIGNATURE", "INITIALS" }

\* C11: every SIGNATURE or INITIALS field with a captured value on an
\* existing page gets exactly one draw operation: its image scaled to the
\* field's absolute box, or the '[SIGNATURE]' label at the box's vertical
\* center; it is never left unstamped.
C11_SignatureAlwaysStamped ==
    eOut = "bytes" =>
        \A i \in DOMAIN eFields :
            LET f == eFields[i] IN
            (IsSignatureType(f) /\ HasCapturedValue(f) /\ OnExistingPage(f, eDoc.pages)) =>
                LET pg == eDoc.pages[f.pageNumber]
                    mine == OpsFor(eOps, i)
                IN  /\ Len(mine) = 1
                    /\ \/ /\ mine[1].op = "image"
                          /\ mine[1].x = MapX(f, pg) /\ mine[1].y = MapY(f, pg)
                          /\ mine[1].width = MapWidth(f, pg)
                          /\ mine[1].height = MapHeight(f, pg)
                       \/ /\ mine[1].op = "text"
                          /\ mine[1].text = "[SIGNATURE]"
                          /\ mine[1].font = "HelveticaBold"
                          /\ mine[1].x = MapX(f, pg)
                          /\ mine[1].y = MapY(f, pg) + MapHeight(f, pg) \div 2

\* a signature field on an existing page whose image does not decode
Corrupt(f, pages) ==
    /\ IsSignatureType(f)
    /\ f.value = "data:image/png;base64,bad"
    /\ OnExistingPage(f, pages)

\* C12: when the image of a signature field fails to decode, the embed still
\* returns bytes, the field gets the placeholder, and every other field with
\* a value on an existing page is stamped exactly as it is when embedded
\* alone, on the same page or on another.
C12_CorruptImageIsNotFatal ==
    ( /\ eOut # "pending"
      /\ eDoc.parses
      /\ \E i \in DOMAIN eFields : Corrupt(eFields[i], eDoc.pages) )
    => /\ eOut = "bytes"
       /\ \A j \in DOMAIN eFields :
             (HasCapturedValue(eFields[j]) /\ OnExistingPage(eFields[j], eDoc.pages)) =>
                /\ Anonymous(OpsFor(eOps, j))
                      = Anonymous(EmbedOps(<< eFields[j] >>, eDoc.pages))
                /\ Corrupt(eFields[j], eDoc.pages) =>
                      /\ Len(OpsFor(eOps, j)) = 1
                      /\ OpsFor(eOps, j)[1].text = "[SIGNATURE]"
                /\ eFields[j].type \in { "TEXT", "DATE", "CHECKBOX" } =>
                      Len(OpsFor(eOps, j)) >= 1

\* a corrupt signature comes first on a page of a two-page document, a text
\* field on the other page follows it, and both are stamped
C12_Witness ==
    /\ eOut = "bytes"
    /\ Len(eDoc.pages) = 2
    /\ Len(eFields) = 2
    /\ Corrupt(eFields[1], eDoc.pages)
    /\ eFields[2].type = "TEXT"
    /\ eFields[2].pageNumber # eFields[1].pageNumber
    /\ Len(eOps) = 2
    /\ \E k \in DOMAIN eOps : eOps[k].field = 1 /\ eOps[k].text = "[SIGNATURE]"
    /\ \E k \in DOMAIN eOps : eOps[k].field = 2 /\ eOps[k].text = "John Doe"

\* C13: base bytes that do not parse end the embed in an error: no bytes
\* are returned, nothing is drawn or embedded, and the arguments are as
\* they were passed.
C13_UnparseableIsError ==
    (eOut # "pending" /\ ~eDoc.parses)
    => /\ eOut = "error"
       /\ eOps = << >>
       /\ eBoxes = << >>
       /\ eFonts = { }

\* the embed of fields with captured values into bytes that do not parse
\* has ended in the error
C13_Witness ==
    /\ eOut = "error"
    /\ ~eDoc.parses
    /\ \E i \in DOMAIN eFields : HasCapturedValue(eFields[i])

----------------------------------------------------------------------------
(* handleDrop: a field type dragged from the toolbox is dropped on a page.  *)
(*   PDFViewer.handleDrop          src/unnamed/part_005 84-114              *)
(*   EnhancedPDFViewer.handleDrop  src/document-details-view.tsx 891-921    *)
(* The drop position is the pointer's offset in the page rectangle in       *)
(* percent: ((e.clientX - rect.left) / rect.width) * 100, likewise for y.   *)

Max(a, b) == IF a > b THEN a ELSE b

\* label: ... ? 'Signature' : ... 'Checkbox'
DropLabel(type) ==
    CASE type = "SIGNATURE" -> "Signature"
      [] type = "INITIALS"  -> "Initials"
      [] type = "DATE"      -> "Date"
      [] type = "TEXT"      -> "Text Field"
      [] OTHER              -> "Checkbox"

\* width: SIGNATURE ? 20 : DATE ? 15 : 10
DropWidth(type) == IF type = "SIGNATURE" THEN 20 ELSE IF type = "DATE" THEN 15 ELSE 10

\* height: SIGNATURE ? 8 : 5
DropHeight(type) == IF type = "SIGNATURE" THEN 8 ELSE 5

\* the newField object of the handlers
NewField(type, pageNumber, x, y) ==
    [ type |-> type, pageNumber |-> pageNumber,
      x |-> Max(0, Min(x - 5, 90)),
      y |-> Max(0, Min(y - 2, 95)),
      width |-> DropWidth(type), height |-> DropHeight(type),
      required |-> TRUE, label |-> DropLabel(type) ]

\* the fields handed to onFieldAdd: none after an early return
PDFViewerHandleDrop(draggedFieldType, isEditable, hasOnFieldAdd, hasPage, pageNumber, x, y) ==
    IF draggedFieldType = Undefined \/ ~isEditable \/ ~hasOnFieldAdd THEN << >>
    ELSE IF ~hasPage THEN << >>
    ELSE << NewField(draggedFieldType, pageNumber, x, y) >>

EnhancedHandleDrop(draggedFieldType, isEditable, hasOnFieldAdd, hasPage, pageNumber, x, y) ==
    IF draggedFieldType = Undefined \/ ~isEditable \/ ~hasOnFieldAdd THEN << >>
    ELSE IF ~hasPage THEN << >>
    ELSE << NewField(draggedFieldType, pageNumber, x, y) >>

\* --- inputs: drop positions inside the page, in percent
DropPercents == { 0, 3, 5, 50, 82, 88, 97, 100 }

DropInit ==
    /\ gType \in FieldTypes
    /\ gEditable \in BOOLEAN
    /\ gPage \in { 1, 2 }
    /\ gX \in DropPercents
    /\ gY \in DropPercents
    /\ gViewer = "none"
    /\ gAdded = << >>

DropIdle ==
    /\ gType = "SIGNATURE"
    /\ gEditable = FALSE
    /\ gPage = 1
    /\ gX = 0
    /\ gY = 0
    /\ gViewer = "none"
    /\ gAdded = << >>

DropOnPDFViewer ==
    /\ gViewer = "none"
    /\ gViewer' = "PDFViewer"
    /\ gAdded' = PDFViewerHandleDrop(gType, gEditable, TRUE, TRUE, gPage, gX, gY)
    /\ UNCHANGED << gType, gEditable, gPage, gX, gY, notDrop >>

DropOnEnhanced ==
    /\ gViewer = "none"
    /\ gViewer' = "EnhancedPDFViewer"
    /\ gAdded' = EnhancedHandleDrop(gType, gEditable, TRUE, TRUE, gPage, gX, gY)
    /\ UNCHANGED << gType, gEditable, gPage, gX, gY, notDrop >>

DropNext == DropOnPDFViewer \/ DropOnEnhanced

\* the field geometry invariant of the specification
GeometryHolds(f) ==
    /\ f.x >= 0 /\ f.x <= 100
    /\ f.y >= 0 /\ f.y <= 100
    /\ f.width > 0 /\ f.width <= 100
    /\ f.height > 0 /\ f.height <= 100
    /\ f.x + f.width <= 100
    /\ f.y + f.height <= 100

\* C16: every field created by a drop inside the page, whatever the position
\* and the field type, has x and y in [0,100], width > 0, height > 0,
\* x + width <= 100 and y + height <= 100.
C16_DroppedFieldInsidePage ==
    \A k \in DOMAIN gAdded : GeometryHolds(gAdded[k])

----------------------------------------------------------------------------
(* The document setup view (src/document-setup-view.tsx) with the viewer it  *)
(* renders in edit mode (PDFViewer, src/unnamed/part_005) and, behind the    *)
(* fetch calls, the document server.  The server's routes are not part of   *)
(* the sources at hand; the server is modelled from the specification: it   *)
(* stores and deletes fields only while the document is DRAFT, and a send   *)
(* moves the document from DRAFT to SENT.                                   *)

MaxSetupFields == 2

\* useState<DocumentDetails | null>(null)
NoDocument == [ loaded |-> FALSE, status |-> Undefined, signatureFields |-> << >>,
                signerWorkflows |-> 0 ]

\* GET /api/esignature/documents/[id]
DocumentOf(status, fields, signers) ==
    [ loaded |-> TRUE, status |-> status, signatureFields |-> fields,
      signerWorkflows |-> signers ]

\* the id the server gives a new field
FreshId(fields) ==
    CHOOSE n \in 1 .. Len(fields) + 1 : \A k \in DOMAIN fields : fields[k].id # n

NoRequest == [ kind |-> "none", field |-> << >>, draft |-> TRUE ]

\* a request the view has issued, and whether the document was DRAFT on the
\* server at that moment
Request(kind, field) == [ kind |-> kind, field |-> field, draft |-> (dStatus = "DRAFT") ]

\* the view gets past its loading, not-found and 'cannot be edited' screens
\* and shows the viewer with isEditable
SetupShown ==
    /\ tMounted
    /\ ~tLoading
    /\ tDocument.loaded
    /\ tDocument.status = "DRAFT"

\* getSetupProgress: completed = total
SetupComplete(document) ==
    document.signerWorkflows > 0 /\ Len(document.signatureFields) > 0

\* the component mounts: useState initial values, useEffect calls fetchDocument
SetupMounted ==
    /\ tMounted = TRUE
    /\ tLoading = TRUE
    /\ tFetching = TRUE
    /\ tDocument = NoDocument
    /\ tSending = FALSE

SetupInit ==
    /\ dStatus = "DRAFT"
    /\ dFields = << >>
    /\ dSigners \in { 0, 1 }
    /\ SetupMounted
    /\ qAdd = << >>
    /\ qRemove = << >>
    /\ qSend = "none"
    /\ hIssued = NoRequest

SetupIdle ==
    /\ dStatus = "DRAFT"
    /\ dFields = << >>
    /\ dSigners = 0
    /\ SetupMounted
    /\ qAdd = << >>
    /\ qRemove = << >>
    /\ qSend = "none"
    /\ hIssued = NoRequest

\* the setup page is opened again after the view has gone
SetupReopen ==
    /\ ~tMounted
    /\ tMounted' = TRUE
    /\ tLoading' = TRUE
    /\ tFetching' = TRUE
    /\ tDocument' = NoDocument
    /\ tSending' = FALSE
    /\ hIssued' = NoRequest
    /\ UNCHANGED << dStatus, dFields, dSigners, qAdd, qRemove, qSend, notSetup >>

\* fetchDocument, response.ok: setDocument(data.document), setLoading(false)
SetupFetchOk ==
    /\ tMounted
    /\ tFetching
    /\ tDocument' = DocumentOf(dStatus, dFields, dSigners)
    /\ tLoading' = FALSE
    /\ tFetching' = FALSE
    /\ UNCHANGED << dStatus, dFields, dSigners, tMounted, tSending, qAdd, qRemove,
                    qSend, hIssued, notSetup >>

\* fetchDocument, the request fails: toast, setLoading(false)
SetupFetchFails ==
    /\ tMounted
    /\ tFetching
    /\ tLoading' = FALSE
    /\ tFetching' = FALSE
    /\ UNCHANGED << dStatus, dFields, dSigners, tMounted, tDocument, tSending, qAdd,
                    qRemove, qSend, hIssued, notSetup >>

\* a field type is dropped on the page: the viewer's handleDrop hands the new
\* field to handleFieldAdd, which issues the POST
DropField(type, x, y) ==
    /\ SetupShown
    /\ Len(tDocument.signatureFields) + Len(qAdd) < MaxSetupFields
    /\ LET added == PDFViewerHandleDrop(type, TRUE, TRUE, TRUE, 1, x, y)
       IN  /\ added # << >>
           /\ qAdd' = qAdd \o added
           /\ hIssued' = Request("add", added)
    /\ UNCHANGED << dStatus, dFields, dSigners, tMounted, tLoading, tFetching,
                    tDocument, tSending, qRemove, qSend, notSetup >>

\* the server answers the POST of a field; on response.ok handleFieldAdd
\* calls fetchDocument, otherwise it shows a toast
AddServed ==
    /\ qAdd # << >>
    /\ qAdd' = Tail(qAdd)
    /\ IF dStatus = "DRAFT" /\ Len(dFields) < MaxSetupFields
       THEN /\ dFields' = Append(dFields, [ id |-> FreshId(dFields), field |-> Head(qAdd) ])
            /\ tLoading' = (tMounted \/ tLoading)
            /\ tFetching' = (tMounted \/ tFetching)
       ELSE UNCHANGED << dFields, tLoading, tFetching >>
    /\ UNCHANGED << dStatus, dSigners, tMounted, tDocument, tSending, qRemove, qSend,
                    hIssued, notSetup >>

\* the context menu of a field in the editable viewer: onFieldRemove(field.id),
\* handleFieldRemove issues the DELETE
RemoveField(k) ==
    /\ SetupShown
    /\ k \in DOMAIN tDocument.signatureFields
    /\ qRemove = << >>
    /\ qRemove' = << tDocument.signatureFields[k].id >>
    /\ hIssued' = Request("remove", << tDocument.signatureFields[k].field >>)
    /\ UNCHANGED << dStatus, dFields, dSigners, tMounted, tLoading, tFetching,
                    tDocument, tSending, qAdd, qSend, notSetup >>

\* the server answers the DELETE; on response.ok handleFieldRemove calls
\* fetchDocument, otherwise it shows a toast
RemoveServed ==
    /\ qRemove # << >>
    /\ qRemove' = << >>
    /\ IF dStatus = "DRAFT" /\ \E k \in DOMAIN dFields : dFields[k].id = Head(qRemove)
       THEN /\ dFields' = SelectSeq(dFields, LAMBDA f : f.id # Head(qRemove))
            /\ tLoading' = (tMounted \/ tLoading)
            /\ tFetching' = (tMounted \/ tFetching)
       ELSE UNCHANGED << dFields, tLoading, tFetching >>
    /\ UNCHANGED << dStatus, dSigners, tMounted, tDocument, tSending, qAdd, qSend,
                    hIssued, notSetup >>

\* handleSendDocument, from the Send button (disabled while sending or while
\* the setup is incomplete): setSending(true), the POST to /api/esignature/send
SendDocument ==
    /\ SetupShown
    /\ ~tSending
    /\ SetupComplete(tDocument)
    /\ qSend = "none"
    /\ tSending' = TRUE
    /\ qSend' = "request"
    /\ hIssued' = Request("send", << >>)
    /\ UNCHANGED << dStatus, dFields, dSigners, tMounted, tLoading, tFetching,
                    tDocument, qAdd, qRemove, notSetup >>

\* the send takes effect on the server; the response is on its way
SendTakesEffect ==
    /\ qSend = "request"
    /\ dStatus = "DRAFT"
    /\ dSigners > 0 /\ dFields # << >>
    /\ dStatus' = "SENT"
    /\ qSend' = "ok"
    /\ UNCHANGED << dFields, dSigners, tMounted, tLoading, tFetching, tDocument,
                    tSending, qAdd, qRemove, hIssued, notSetup >>

\* the server refuses the send, or the request fails: toast, setSending(false)
SendRefused ==
    /\ qSend = "request"
    /\ qSend' = "none"
    /\ tSending' = FALSE
    /\ UNCHANGED << dStatus, dFields, dSigners, tMounted, tLoading, tFetching,
                    tDocument, qAdd, qRemove, hIssued, notSetup >>

\* handleSendDocument, response.ok: toast, router.push to the document's
\* page, so the setup view goes away
SendReturns ==
    /\ qSend = "ok"
    /\ qSend' = "none"
    /\ tSending' = FALSE
    /\ tMounted' = FALSE
    /\ UNCHANGED << dStatus, dFields, dSigners, tLoading, tFetching, tDocument,
                    qAdd, qRemove, hIssued, notSetup >>

\* --- inputs: the field types and pointer positions dropped in the setup view
SetupDropTypes == { "SIGNATURE", "CHECKBOX" }
SetupDropPoints == { << 50, 50 >>, << 97, 50 >> }

DropSome == \E t \in SetupDropTypes, p \in SetupDropPoints : DropField(t, p[1], p[2])
RemoveSome == \E k \in 1 .. MaxSetupFields : RemoveField(k)

SetupNext ==
    \/ SetupReopen
    \/ SetupFetchOk
    \/ SetupFetchFails
    \/ DropSome
    \/ AddServed
    \/ RemoveSome
    \/ RemoveServed
    \/ SendDocument
    \/ SendTakesEffect
    \/ SendRefused
    \/ SendReturns

\* the field of a request as validateFieldCoordinates takes it
AsPartialField(f) ==
    [ x |-> Some(f.x), y |-> Some(f.y), width |-> Some(f.width), height |-> Some(f.height) ]

\* C15: the POST of a newly authored field is issued only for a field that
\* validateFieldCoordinates accepts.
C15_OnlyValidFieldsPosted ==
    hIssued.kind = "add" =>
        \A k \in DOMAIN hIssued.field :
            validateFieldCoordinates(AsPartialField(hIssued.field[k]))

\* C17: a field-add or field-remove request is issued only while the
\* document is DRAFT, whatever the order of the user's add, remove and send
\* actions and of the server's answers.
C17_FieldEditsOnlyWhileDraft ==
    hIssued.kind \in { "add", "remove" } => hIssued.draft

----------------------------------------------------------------------------
(* The signer setup modal (src/signer-setup-modal.tsx): the local signer    *)
(* list with its add, update, remove and move operations, validateSigners   *)
(* and handleSave.  The server behind handleSave's requests is not part of  *)
(* the sources at hand; it is modelled from the specification as a store of *)
(* signer workflows and of the document's sequential-signing flag.          *)

MaxSigners == 3
MaxSaveSigners == 2

Statuses == { "PENDING", "SENT", "VIEWED", "SIGNED", "DECLINED" }

\* a comparison of addresses that takes them as typed
AsTyped(email) == email

\* String.prototype.toLowerCase on the addresses in use
Lower(email) == IF email = "A@X.com" THEN "a@x.com" ELSE email

\* /^[^\s@]+@[^\s@]+\.[^\s@]+$/.test(email) on the addresses in use
EmailRegexTest(email) == email \in { "a@x.com", "A@X.com", "b@x.com" }

NoContact == [ id |-> Undefined, email |-> "", name |-> "" ]

Contacts == { [ id |-> "c1", email |-> "a@x.com", name |-> "Ann Lee" ],
              [ id |-> "c2", email |-> "b@x.com", name |-> "Bob Ray" ] }

\* addSigner(contact?): the list with newSigner appended
addSigner(signers, contact) ==
    Append(signers,
           [ id |-> Undefined,
             signerEmail |-> contact.email,
             signerName |-> contact.name,
             signerRole |-> "Customer",
             signingOrder |-> Len(signers) + 1,
             contactId |-> contact.id,
             status |-> Undefined ])

\* updateSigner(index, { signerEmail }) and updateSigner(index, { signerName })
updateSignerEmail(signers, k, email) == [ signers EXCEPT ![k].signerEmail = email ]
updateSignerName(signers, k, name) == [ signers EXCEPT ![k].signerName = name ]

\* a list left with the signing orders it has
KeepOrders(signers) == signers

\* updated.forEach((signer, i) => { signer.signingOrder = i + 1; })
Renumber(signers) == [ i \in DOMAIN signers |-> [ signers[i] EXCEPT !.signingOrder = i ] ]

\* signers.filter((_, i) => i !== index); positions count from 1 here
Without(signers, k) ==
    [ i \in 1 .. Len(signers) - 1 |-> IF i < k THEN signers[i] ELSE signers[i + 1] ]

\* [updated[a], updated[b]] = [updated[b], updated[a]]
Swapped(signers, a, b) ==
    [ i \in DOMAIN signers |-> IF i = a THEN signers[b]
                               ELSE IF i = b THEN signers[a] ELSE signers[i] ]

removeSigner(signers, k) == Renumber(Without(signers, k))

moveSignerUp(signers, k) ==
    IF k = 1 THEN signers ELSE Renumber(Swapped(signers, k - 1, k))

moveSignerDown(signers, k) ==
    IF k = Len(signers) THEN signers ELSE Renumber(Swapped(signers, k, k + 1))

\* the for loop of validateSigners: the first signer that fails a test
\* decides the message
RECURSIVE FirstInvalid(_, _)
FirstInvalid(signers, i) ==
    IF i > Len(signers) THEN Undefined
    ELSE IF FalsyStr(signers[i].signerEmail) \/ FalsyStr(signers[i].signerName)
         THEN "All signers must have name and email"
    ELSE IF ~EmailRegexTest(signers[i].signerEmail)
         THEN "All email addresses must be valid"
    ELSE FirstInvalid(signers, i + 1)

\* emails.length !== new Set(emails).size, emails lower-cased
HasDuplicateEmails(signers) ==
    Len(signers) # Cardinality({ Lower(signers[i].signerEmail) : i \in DOMAIN signers })

\* validateSigners: the message, or null
validateSigners(signers) ==
    IF FirstInvalid(signers, 1) # Undefined THEN FirstInvalid(signers, 1)
    ELSE IF HasDuplicateEmails(signers) THEN "Duplicate email addresses are not allowed"
    ELSE Undefined

\* disabled={!!signer.status && signer.status !== 'PENDING'}
Locked4Edit(signer) == signer.status # Undefined /\ signer.status # "PENDING"

\* signers.filter(s => !s.id)
NewSigners(signers) == SelectSeq(signers, LAMBDA s : s.id = Undefined)

\* --- the signer workflows the modal is opened with: signing orders 1..N in
\* list order
Workflow(n, status) ==
    [ id |-> IF n = 1 THEN "w1" ELSE "w2",
      signerEmail |-> IF n = 1 THEN "a@x.com" ELSE "b@x.com",
      signerName |-> IF n = 1 THEN "Ann Lee" ELSE "Bob Ray",
      signerRole |-> "Customer",
      signingOrder |-> n,
      contactId |-> IF n = 1 THEN "c1" ELSE "c2",
      status |-> status ]

ExistingLists ==
    { << >> } \cup { << Workflow(1, s) >> : s \in Statuses }
              \cup { << Workflow(1, s), Workflow(2, t) >> : s \in Statuses, t \in Statuses }

\* two signers of the list have the same address, letter case aside
SharedAddress(signers) ==
    \E i, j \in DOMAIN signers :
        /\ i # j
        /\ { signers[i].signerEmail, signers[j].signerEmail }
              \in { { "" }, { "a@x.com" }, { "A@X.com" }, { "b@x.com" }, { "a@x.com", "A@X.com" } }

NoSave == [ called |-> FALSE, duplicate |-> FALSE, error |-> Undefined,
            issued |-> FALSE, stored |-> << >> ]

\* the switch was not touched since the modal was opened, no request of
\* handleSave has failed and handleSave has reported nothing
NoModal == [ toggled |-> FALSE, failed |-> FALSE, reported |-> "none" ]

\* useEffect on isOpen: setSigners(existingSigners.map(s => ({ ...s })))
ModalOpened(existing) ==
    /\ mExisting = existing
    /\ mSigners = existing
    /\ mSigningOrder = FALSE
    /\ mPhase = "editing"
    /\ mQueue = << >>
    /\ hSave = NoSave
    /\ hModal = NoModal

SignersInit ==
    /\ rSigners \in ExistingLists
    /\ rSequential = FALSE
    /\ ModalOpened(rSigners)

SignersIdle ==
    /\ rSigners = << >>
    /\ rSequential = FALSE
    /\ ModalOpened(<< >>)

\* the modal is opened for a document in setup: every stored signer PENDING
SignerSaveInit ==
    /\ rSigners \in { l \in ExistingLists : /\ Len(l) < MaxSaveSigners
                                            /\ \A i \in DOMAIN l : l[i].status = "PENDING" }
    /\ rSequential = FALSE
    /\ ModalOpened(rSigners)

\* the dialog is open and no save is in flight.  The Save and Cancel buttons
\* are disabled while saving; the inputs and list buttons are not, but what
\* they change then is the list alone, which the requests in flight no
\* longer read: such an edit is taken when handleSave has returned.
Editing == mPhase = "editing"

\* 'Add Manual Signer': addSigner()
AddManual(max) ==
    /\ Editing
    /\ Len(mSigners) < max
    /\ mSigners' = addSigner(mSigners, NoContact)
    /\ UNCHANGED << mExisting, mSigningOrder, mPhase, mQueue, hSave, hModal, rSigners,
                    rSequential, notSigners >>

\* a contact of the search list: !alreadyAdded && addSigner(contact)
AddContact(max, contact) ==
    /\ Editing
    /\ Len(mSigners) < max
    /\ ~\E i \in DOMAIN mSigners : mSigners[i].contactId = contact.id
    /\ mSigners' = addSigner(mSigners, contact)
    /\ UNCHANGED << mExisting, mSigningOrder, mPhase, mQueue, hSave, hModal, rSigners,
                    rSequential, notSigners >>

\* the email input of signer k
EditEmail(k, email) ==
    /\ Editing
    /\ k \in DOMAIN mSigners
    /\ ~Locked4Edit(mSigners[k])
    /\ mSigners[k].signerEmail # email
    /\ mSigners' = updateSignerEmail(mSigners, k, email)
    /\ UNCHANGED << mExisting, mSigningOrder, mPhase, mQueue, hSave, hModal, rSigners,
                    rSequential, notSigners >>

\* the name input of signer k
EditName(k, name) ==
    /\ Editing
    /\ k \in DOMAIN mSigners
    /\ ~Locked4Edit(mSigners[k])
    /\ mSigners[k].signerName # name
    /\ mSigners' = updateSignerName(mSigners, k, name)
    /\ UNCHANGED << mExisting, mSigningOrder, mPhase, mQueue, hSave, hModal, rSigners,
                    rSequential, notSigners >>

\* the X button of signer k
Remove(k) ==
    /\ Editing
    /\ k \in DOMAIN mSigners
    /\ ~Locked4Edit(mSigners[k])
    /\ mSigners' = removeSigner(mSigners, k)
    /\ UNCHANGED << mExisting, mSigningOrder, mPhase, mQueue, hSave, hModal, rSigners,
                    rSequential, notSigners >>

\* the up button of signer k, shown while the Sequential Signing switch is on
MoveUp(k) ==
    /\ Editing
    /\ mSigningOrder
    /\ k \in DOMAIN mSigners
    /\ k # 1
    /\ ~Locked4Edit(mSigners[k])
    /\ mSigners' = moveSignerUp(mSigners, k)
    /\ UNCHANGED << mExisting, mSigningOrder, mPhase, mQueue, hSave, hModal, rSigners,
                    rSequential, notSigners >>

\* the down button of signer k
MoveDown(k) ==
    /\ Editing
    /\ mSigningOrder
    /\ k \in DOMAIN mSigners
    /\ k # Len(mSigners)
    /\ ~Locked4Edit(mSigners[k])
    /\ mSigners' = moveSignerDown(mSigners, k)
    /\ UNCHANGED << mExisting, mSigningOrder, mPhase, mQueue, hSave, hModal, rSigners,
                    rSequential, notSigners >>

\* the Sequential Signing switch
ToggleSigningOrder ==
    /\ Editing
    /\ mSigningOrder' = ~mSigningOrder
    /\ hModal' = [ hModal EXCEPT !.toggled = TRUE ]
    /\ UNCHANGED << mExisting, mSigners, mPhase, mQueue, hSave, rSigners,
                    rSequential, notSigners >>

\* handleSave up to its first request: validateSigners, the empty-list test
\* (the button is disabled for an empty list), setSaving(true)
Save ==
    /\ Editing
    /\ mSigners # << >>
    /\ LET error == validateSigners(mSigners)
       IN  /\ hSave' = [ called |-> TRUE,
                         duplicate |-> SharedAddress(mSigners),
                         error |-> error,
                         issued |-> error = Undefined,
                         stored |-> IF SharedAddress(mSigners) THEN rSigners ELSE << >> ]
           /\ hModal' = [ hModal EXCEPT !.failed = FALSE,
                                        !.reported = IF error # Undefined THEN "failure"
                                                     ELSE "none" ]
           /\ IF error # Undefined
              THEN UNCHANGED << mPhase, mQueue >>
              ELSE /\ mQueue' = NewSigners(mSigners)
                   /\ mPhase' = IF NewSigners(mSigners) = << >> THEN "patching" ELSE "posting"
    /\ UNCHANGED << mExisting, mSigners, mSigningOrder, rSigners, rSequential, notSigners >>

\* the server keeps the addresses of a document's signers unique
EmailStored(email) ==
    \E i \in DOMAIN rSigners : Lower(rSigners[i].signerEmail) = Lower(email)

\* the POST of the next new signer is answered with ok: the server stores
\* the signer as PENDING
PostStored ==
    /\ mPhase = "posting"
    /\ ~EmailStored(Head(mQueue).signerEmail)
    /\ rSigners' = Append(rSigners,
                          [ Head(mQueue) EXCEPT !.id = IF Len(rSigners) = 0 THEN "w1"
                                                       ELSE IF Len(rSigners) = 1 THEN "w2"
                                                       ELSE "w3",
                                                !.status = "PENDING" ])
    /\ mQueue' = Tail(mQueue)
    /\ mPhase' = IF Tail(mQueue) = << >> THEN "patching" ELSE "posting"
    /\ UNCHANGED << mExisting, mSigners, mSigningOrder, hSave, hModal, rSequential, notSigners >>

\* a POST is refused or fails: the throw ends the loop, toast, setSaving(false)
PostFails ==
    /\ mPhase = "posting"
    /\ mQueue' = << >>
    /\ mPhase' = "editing"
    /\ hModal' = [ hModal EXCEPT !.failed = TRUE, !.reported = "failure" ]
    /\ UNCHANGED << mExisting, mSigners, mSigningOrder, hSave, rSigners, rSequential,
                    notSigners >>

\* the PATCH of the document's signingOrder setting is applied, then toast,
\* onSignersUpdate (the parent fetches the document again), onClose
Patched ==
    /\ mPhase = "patching"
    /\ rSequential' = mSigningOrder
    /\ mExisting' = rSigners
    /\ mPhase' = "closed"
    /\ hModal' = [ hModal EXCEPT !.reported = "success" ]
    /\ UNCHANGED << mSigners, mSigningOrder, mQueue, hSave, rSigners, notSigners >>

\* the PATCH is answered with an error status: the awaited response is not
\* looked at, so the lines after it run as they do for an applied PATCH
PatchRefused ==
    /\ mPhase = "patching"
    /\ mExisting' = rSigners
    /\ mPhase' = "closed"
    /\ hModal' = [ hModal EXCEPT !.failed = TRUE, !.reported = "success" ]
    /\ UNCHANGED << mSigners, mSigningOrder, mQueue, hSave, rSigners, rSequential,
                    notSigners >>

\* the PATCH does not get an answer: fetch rejects, catch, toast.error
PatchThrows ==
    /\ mPhase = "patching"
    /\ mPhase' = "editing"
    /\ hModal' = [ hModal EXCEPT !.failed = TRUE, !.reported = "failure" ]
    /\ UNCHANGED << mExisting, mSigners, mSigningOrder, mQueue, hSave, rSigners,
                    rSequential, notSigners >>

\* Cancel: onClose
Cancel ==
    /\ Editing
    /\ mPhase' = "closed"
    /\ UNCHANGED << mExisting, mSigners, mSigningOrder, mQueue, hSave, hModal, rSigners,
                    rSequential, notSigners >>

\* the modal is opened again: the list is the parent's signer workflows
Reopen ==
    /\ mPhase = "closed"
    /\ mSigners' = mExisting
    /\ mPhase' = "editing"
    /\ hSave' = NoSave
    /\ hModal' = NoModal
    /\ UNCHANGED << mExisting, mSigningOrder, mQueue, rSigners, rSequential, notSigners >>

\* --- inputs
SignerEmails == { "", "a@x.com", "A@X.com", "b@x.com" }
SignerNames == { "", "Ann Lee" }

AddManualToList == AddManual(MaxSigners)
AddContactToList == \E c \in Contacts : AddContact(MaxSigners, c)
RemoveSome4List == \E k \in 1 .. MaxSigners : Remove(k)
MoveUpSome == \E k \in 1 .. MaxSigners : MoveUp(k)
MoveDownSome == \E k \in 1 .. MaxSigners : MoveDown(k)

\* the list operations of the modal
SignersNext ==
    \/ AddManualToList
    \/ AddContactToList
    \/ RemoveSome4List
    \/ MoveUpSome
    \/ MoveDownSome
    \/ ToggleSigningOrder

AddManualToSave == AddManual(MaxSaveSigners)
EditEmailSome == \E k \in 1 .. MaxSaveSigners, e \in SignerEmails : EditEmail(k, e)
EditNameSome == \E k \in 1 .. MaxSaveSigners, n \in SignerNames : EditName(k, n)

\* filling in the list and saving it
SignerSaveNext ==
    \/ AddManualToSave
    \/ EditEmailSome
    \/ EditNameSome
    \/ ToggleSigningOrder
    \/ Save
    \/ PostStored
    \/ PostFails
    \/ Patched
    \/ Cancel
    \/ Reopen

----------------------------------------------------------------------------
(* Claims about the signer setup modal *)

\* C18: when two signers of the list have the same email address, compared
\* without regard to letter case, handleSave fails validation before any
\* persistence: it issues no signer POST and no document PATCH, and the
\* stored signer set is what it was when handleSave was called.
C18_DuplicateEmailBlocksSave ==
    (hSave.called /\ hSave.duplicate) =>
        /\ hSave.error # Undefined
        /\ ~hSave.issued
        /\ mPhase \notin { "posting", "patching" }
        /\ mQueue = << >>
        /\ rSigners = hSave.stored

\* handleSave was called on a list holding a@x.com and A@X.com, both named
C18_Witness ==
    /\ hSave.called
    /\ hSave.duplicate
    /\ hSave.error = "Duplicate email addresses are not allowed"
    /\ \E i, j \in DOMAIN mSigners : /\ mSigners[i].signerEmail = "a@x.com"
                                     /\ mSigners[j].signerEmail = "A@X.com"

\* C19: after any sequence of addSigner, removeSigner, moveSignerUp and
\* moveSignerDown on a list whose signing orders are 1..N in list order, the
\* signing orders are again 1..N: the signer at index i has signingOrder i + 1.
C19_OrdersDense ==
    \A i \in DOMAIN mSigners : mSigners[i].signingOrder = i

\* the second stored signer was moved to the front of a list of three, a
\* signer added by hand behind it, and the orders are 1, 2, 3
C19_Witness ==
    /\ Len(mSigners) = 3
    /\ mSigners[1].id = "w2"
    /\ mSigners[2].id = Undefined
    /\ mSigners[3].id = "w1"
    /\ \A i \in 1 .. 3 : mSigners[i].signingOrder = i

\* the signing order the modal was opened with, of a stored signer
OpenedOrder(id) ==
    LET k == CHOOSE k \in DOMAIN mExisting : mExisting[k].id = id
    IN  mExisting[k].signingOrder

----------------------------------------------------------------------------
(* SignaturePad (src/contacts-list-view.tsx 711-1002): the three tabs, the   *)
(* canvas, the typed text, the uploaded image, and handleSave.  The canvas   *)
(* library and the browser's canvas and FileReader are outside the sources:  *)
(* isEmpty() is "no stroke since the canvas was mounted or cleared",         *)
(* toDataURL() and readAsDataURL give a non-empty data URL.                  *)

MaxPadSaves == 2

PadTabs == { "draw", "type", "upload" }
TypedTexts == { "", " ", "Jo" }

DrawnUrl == "data:image/png;base64,drawn"
TypedUrl == "data:image/png;base64,typed"
FileUrls == { "data:image/png;base64,ok", "data:image/jpeg;base64,ok" }

\* the text as it is, where the code trims it
Untrimmed(s) == s

\* typedSignature.trim()
TypedTrim(s) == Trim(s)

\* signatureRef.current: the canvas is mounted while the dialog is open on
\* the draw tab
CanvasRef(open, tab) == open /\ tab = "draw"

NoPadCall == [ called |-> FALSE, tab |-> "draw", strokes |-> FALSE, typed |-> "",
               uploaded |-> Undefined, before |-> 0, open |-> FALSE, toast |-> "" ]

\* what handleSave does: the onSave call if any, whether onClose is called,
\* and the toast.  env is what the browser does in this call: "ok", "noctx"
\* (getContext returns null), "throws" (a canvas call throws)
PadResult(call, close, toast) == [ call |-> call, close |-> close, toast |-> toast ]

PadHandleSave(tab, hasRef, strokes, typed, uploaded, env) ==
    IF tab = "draw" THEN
        IF hasRef /\ ~strokes THEN PadResult(<< >>, FALSE, "Please draw your signature")
        ELSE IF env = "throws" THEN PadResult(<< >>, FALSE, "Failed to save signature")
        ELSE PadResult(<< [ data |-> IF hasRef THEN DrawnUrl ELSE "", type |-> "drawn" ] >>,
                       TRUE, "Signature saved successfully")
    ELSE IF tab = "type" THEN
        IF TypedTrim(typed) = "" THEN PadResult(<< >>, FALSE, "Please enter your signature")
        ELSE IF env = "noctx" THEN PadResult(<< >>, FALSE, "")
        ELSE IF env = "throws" THEN PadResult(<< >>, FALSE, "Failed to save signature")
        ELSE PadResult(<< [ data |-> TypedUrl, type |-> "typed" ] >>, TRUE,
                       "Signature saved successfully")
    ELSE IF tab = "upload" THEN
        IF uploaded = Undefined THEN PadResult(<< >>, FALSE, "Please upload a signature image")
        ELSE PadResult(<< [ data |-> uploaded, type |-> "uploaded" ] >>, TRUE,
                       "Signature saved successfully")
    ELSE PadResult(<< [ data |-> "", type |-> "drawn" ] >>, TRUE, "Signature saved successfully")

PadInit ==
    /\ kOpen = TRUE
    /\ kTab = "draw"
    /\ kStrokes = FALSE
    /\ kTyped = ""
    /\ kUploaded = Undefined
    /\ kSaves = << >>
    /\ hPad = NoPadCall

PadIdle ==
    /\ kOpen = FALSE
    /\ kTab = "draw"
    /\ kStrokes = FALSE
    /\ kTyped = ""
    /\ kUploaded = Undefined
    /\ kSaves = << >>
    /\ hPad = NoPadCall

\* a stroke on the canvas
PadDraw ==
    /\ CanvasRef(kOpen, kTab)
    /\ kStrokes' = TRUE
    /\ UNCHANGED << kOpen, kTab, kTyped, kUploaded, kSaves, hPad, notPad >>

\* a tab trigger: setActiveTab; the canvas of the draw tab is mounted anew
PadSetTab(tab) ==
    /\ kOpen
    /\ tab # kTab
    /\ kTab' = tab
    /\ kStrokes' = FALSE
    /\ UNCHANGED << kOpen, kTyped, kUploaded, kSaves, hPad, notPad >>

\* the text input of the type tab
PadType(text) ==
    /\ kOpen
    /\ kTab = "type"
    /\ text # kTyped
    /\ kTyped' = text
    /\ UNCHANGED << kOpen, kTab, kStrokes, kUploaded, kSaves, hPad, notPad >>

\* handleFileUpload with an image file of at most 5MB, and the reader's onload
PadUpload(url) ==
    /\ kOpen
    /\ kTab = "upload"
    /\ kUploaded' = url
    /\ UNCHANGED << kOpen, kTab, kStrokes, kTyped, kSaves, hPad, notPad >>

\* handleClear
PadClear ==
    /\ kOpen
    /\ kStrokes' = FALSE
    /\ kTyped' = ""
    /\ kUploaded' = Undefined
    /\ UNCHANGED << kOpen, kTab, kSaves, hPad, notPad >>

\* the Save Signature button
PadSaveClicked(env) ==
    /\ kOpen
    /\ LET r == PadHandleSave(kTab, CanvasRef(kOpen, kTab), kStrokes, kTyped, kUploaded, env)
       IN  /\ kSaves' = kSaves \o r.call
           /\ kOpen' = (kOpen /\ ~r.close)
           /\ hPad' = [ called |-> TRUE, tab |-> kTab, strokes |-> kStrokes,
                        typed |-> kTyped, uploaded |-> kUploaded,
                        before |-> Len(kSaves), open |-> ~r.close, toast |-> r.toast ]
    /\ UNCHANGED << kTab, kStrokes, kTyped, kUploaded, notPad >>

\* Cancel, Escape, a click outside: onClose
PadCancel ==
    /\ kOpen
    /\ kOpen' = FALSE
    /\ kStrokes' = FALSE
    /\ UNCHANGED << kTab, kTyped, kUploaded, kSaves, hPad, notPad >>

\* the parent opens the pad for another field: useEffect on isOpen
PadOpened ==
    /\ ~kOpen
    /\ Len(kSaves) < MaxPadSaves
    /\ kOpen' = TRUE
    /\ kStrokes' = FALSE
    /\ UNCHANGED << kTab, kTyped, kUploaded, kSaves, hPad, notPad >>

PadSetTabSome == \E tab \in PadTabs : PadSetTab(tab)
PadTypeSome == \E text \in TypedTexts : PadType(text)
PadUploadSome == \E url \in FileUrls : PadUpload(url)
PadSaveClickedSome == \E env \in { "ok", "noctx", "throws" } : PadSaveClicked(env)

PadNext ==
    \/ PadDraw
    \/ PadSetTabSome
    \/ PadTypeSome
    \/ PadUploadSome
    \/ PadClear
    \/ PadSaveClickedSome
    \/ PadCancel
    \/ PadOpened

\* the method tag of a tab
TagOf(tab) == IF tab = "draw" THEN "drawn" ELSE IF tab = "type" THEN "typed" ELSE "uploaded"

\* the call of handleSave recorded in hPad found nothing to save
NothingCaptured ==
    \/ hPad.tab = "draw" /\ ~hPad.strokes
    \/ hPad.tab = "type" /\ hPad.typed \in { "", " " }
    \/ hPad.tab = "upload" /\ hPad.uploaded = Undefined

\* C21: handleSave invokes onSave only with a non-empty payload and the
\* method tag of the active tab; when no stroke was drawn, the typed text is
\* blank or no image was uploaded, onSave is not invoked, nothing is
\* persisted and the dialog stays open.
C21_SaveOnlyWhatWasCaptured ==
    hPad.called =>
        /\ Len(kSaves) > hPad.before =>
              /\ kSaves[Len(kSaves)].data # ""
              /\ kSaves[Len(kSaves)].type = TagOf(hPad.tab)
        /\ NothingCaptured => (Len(kSaves) = hPad.before /\ hPad.open)

\* a blank typed signature was refused and the dialog is still open, after
\* an earlier save of a drawn signature went through
C21_Witness ==
    /\ hPad.called
    /\ hPad.tab = "type"
    /\ hPad.typed = " "
    /\ hPad.toast = "Please enter your signature"
    /\ kOpen
    /\ Len(kSaves) = 1
    /\ kSaves[1].type = "drawn"

----------------------------------------------------------------------------
(* The integrity utilities (src/esignature-utils.ts 32-43, 67-72, 203-215).  *)
(* A Buffer is a sequence of bytes, a string a sequence of code points.      *)
(* SHA-256 is taken as collision-free: the digest of an input is written     *)
(* as the input itself, with the length of its hex form.                     *)

MaxBytes == 2
MaxTokens == 2
MaxClock == 1

ReplacementChar == 65533

\* an ASCII letter, two continuation bytes, the lead byte of a two-byte
\* sequence
Bytes == { 65, 128, 129, 195 }

IsContinuation(b) == b >= 128 /\ b <= 191

\* Buffer.prototype.toString(): UTF-8 decoding, U+FFFD for every byte that
\* is not part of a well-formed sequence
RECURSIVE BufferToString(_)
BufferToString(bytes) ==
    IF bytes = << >> THEN << >>
    ELSE IF Head(bytes) < 128 THEN << Head(bytes) >> \o BufferToString(Tail(bytes))
    ELSE IF Head(bytes) = 195 /\ Len(bytes) > 1 /\ IsContinuation(bytes[2])
         THEN << (Head(bytes) - 192) * 64 + (bytes[2] - 128) >>
                 \o BufferToString(Tail(Tail(bytes)))
    ELSE << ReplacementChar >> \o BufferToString(Tail(bytes))

\* SHA256(message).toString(): 64 hex digits that stand for the message
SHA256Hex(message) == [ of |-> message, len |-> 64 ]

\* String.prototype.substring(0, n) of a hex digest
HexPrefix(digest, n) == [ of |-> digest.of, len |-> IF digest.len < n THEN digest.len ELSE n ]

\* calculateDocumentHash(content: Buffer), as extractPDFMetadata calls it
calculateDocumentHash(content) == SHA256Hex(BufferToString(content))

\* calculateSignatureHash(signatureData)
calculateSignatureHash(signatureData) == SHA256Hex(signatureData)

\* generateSigningToken with Date.now() = now and
\* Math.random().toString(36).substring(2) = random
generateSigningToken(now, random) ==
    HexPrefix(SHA256Hex(<< now, "-", random >>), 32)

Buffers == UNION { [ 1 .. n -> Bytes ] : n \in 0 .. MaxBytes }

SignatureDatas == { "data:image/png;base64,ok", "data:image/jpeg;base64,ok", "John Doe" }

\* Math.random().toString(36).substring(2); the empty string when
\* Math.random() returns 0
Randoms == { "", "4fzyo82mvyr" }

NoHashes == [ kind |-> "none", a |-> << >>, b |-> << >>, hashA |-> << >>, hashB |-> << >>,
              againA |-> << >> ]

IntegrityInit ==
    /\ yHashes = NoHashes
    /\ yNow = 0
    /\ yTokens = << >>

IntegrityIdle ==
    /\ yHashes = NoHashes
    /\ yNow = 0
    /\ yTokens = << >>

\* extractPDFMetadata on two documents, the first of them hashed twice
HashDocuments(a, b) ==
    /\ yHashes' = [ kind |-> "document", a |-> a, b |-> b,
                    hashA |-> calculateDocumentHash(a),
                    hashB |-> calculateDocumentHash(b),
                    againA |-> calculateDocumentHash(a) ]
    /\ UNCHANGED << yNow, yTokens, notIntegrity >>

\* calculateSignatureHash on two captured signatures
HashSignatures(a, b) ==
    /\ yHashes' = [ kind |-> "signature", a |-> a, b |-> b,
                    hashA |-> calculateSignatureHash(a),
                    hashB |-> calculateSignatureHash(b),
                    againA |-> calculateSignatureHash(a) ]
    /\ UNCHANGED << yNow, yTokens, notIntegrity >>

\* a millisecond passes
Tick ==
    /\ yNow < MaxClock
    /\ yNow' = yNow + 1
    /\ UNCHANGED << yHashes, yTokens, notIntegrity >>

\* a signer workflow is given its token
GenerateToken(random) ==
    /\ Len(yTokens) < MaxTokens
    /\ yTokens' = Append(yTokens, [ at |-> yNow, token |-> generateSigningToken(yNow, random) ])
    /\ UNCHANGED << yHashes, yNow, notIntegrity >>

HashDocumentsSome == \E a \in Buffers, b \in Buffers : HashDocuments(a, b)
HashSignaturesSome == \E a \in SignatureDatas, b \in SignatureDatas : HashSignatures(a, b)
GenerateTokenSome == \E random \in Randoms : GenerateToken(random)

IntegrityNext ==
    \/ HashDocumentsSome
    \/ HashSignaturesSome
    \/ Tick
    \/ GenerateTokenSome

\* C22: the content hash is stable and tamper-evident: the same content
\* gives the same hash on every call, and two contents that differ are never
\* reduced to the same digest input, so a changed document cannot keep the
\* hash of the original.
C22_HashStableAndTamperEvident ==
    yHashes.kind # "none" =>
        /\ yHashes.againA = yHashes.hashA
        /\ yHashes.a # yHashes.b => yHashes.hashA # yHashes.hashB

\* C23: any two calls of generateSigningToken return different tokens, also
\* within one millisecond, and every token has exactly 32 hex characters.
C23_TokensUnique ==
    /\ \A i \in DOMAIN yTokens : yTokens[i].token.len = 32
    /\ \A i, j \in DOMAIN yTokens : i # j => yTokens[i].token # yTokens[j].token

----------------------------------------------------------------------------
(* The box of one field over a grid of positions and sizes *)

GridBoxes ==
    { [ x |-> x, y |-> y, width |-> w, height |-> h ] :
        x \in { 0, 10, 90 }, y \in { 0, 80, 95 }, w \in { 10, 20, 100 }, h \in { 5, 8, 20, 100 } }

GridValues ==
    { << "SIGNATURE", "data:image/png;base64,ok" >>, << "TEXT", "John Doe" >>,
      << "CHECKBOX", "checked" >> }

\* embedSignaturesInPDF called with one field
EmbedBoxInit ==
    /\ eDoc \in Documents
    /\ eFields \in { << [ type |-> tv[1], value |-> tv[2], pageNumber |-> n,
                          x |-> b.x, y |-> b.y, width |-> b.width, height |-> b.height ] >> :
                       tv \in GridValues, n \in { 1, 2 }, b \in GridBoxes }
    /\ eBoxes = << >>
    /\ eOps = << >>
    /\ eFonts = { }
    /\ eOut = "pending"

----------------------------------------------------------------------------
(* Further claims about the public signing view (checked under SpecSigning) *)

\* the last event completed a field: a signature saved in the pad, or a
\* click that filled a DATE, TEXT or CHECKBOX field
Completed ==
    \/ hLast.by = "padSave"
    \/ hLast.by = "click" /\ hLast.out.update # Undefined

\* C25: whenever the signer completes an unsigned field they may act on, a
\* save-signature request with that field's id, the captured value and the
\* signing token is issued.  handleFieldSign issues the request in the call
\* itself, so the request is due in the event that completes the field.
C25_CompletedFieldIsSaved ==
    (Completed /\ ~hLast.signed /\ hLast.actable)
    => hLast.out.save = hLast.out.update

\* no save-signature request is issued by any click or pad save
NoSaveRequestEver == hLast.out.save = Undefined


\* C27: whenever the most recent fetch of the session succeeded (and no
\* other fetch is in flight), the view shows that session and not the error
\* screen: the error of an earlier failed fetch does not outlive a later
\* successful one.
C27_SuccessfulFetchShowsSession ==
    (hFetch = "ok" /\ ~pFetching) => Rendered

\* loading is false once a fetch has finished and none is in flight
LoadingEndsWithFetch ==
    (hFetch # "none" /\ ~pFetching) => ~pLoading

----------------------------------------------------------------------------
(* handleFieldSign of the public signing view (src/public-signing-view.tsx *)
(* 133-171), called as handleFieldClick and handleSignatureSave call it    *)
(* when they are given a field of the session.  The server behind the two  *)
(* fetch calls is modelled from the specification: a stored signature      *)
(* stays stored, and a field is signed once.                               *)

\* the document: two required fields of this signer, a required field of
\* another signer and an optional date that any signer may fill
SignFields ==
    << [ id |-> "fA", type |-> "SIGNATURE", required |-> TRUE, signerId |-> "s1" ],
       [ id |-> "fB", type |-> "SIGNATURE", required |-> TRUE, signerId |-> Me ],
       [ id |-> "fD", type |-> "INITIALS", required |-> TRUE, signerId |-> Me ],
       [ id |-> "fC", type |-> "DATE", required |-> FALSE, signerId |-> Undefined ] >>

\* session.allFields as the server returns them when `signed` are signed
SignSessionFields(signed) ==
    [ i \in DOMAIN SignFields |->
        [ id |-> SignFields[i].id, type |-> SignFields[i].type,
          required |-> SignFields[i].required, signerId |-> SignFields[i].signerId,
          sigData |-> IF SignFields[i].id \in signed
                      THEN StoredData(SignFields[i]) ELSE Undefined ] ]

\* the signer's required fields that have no signature on the server
RequiredLeft(signed) ==
    { SignFields[i].id : i \in { j \in DOMAIN SignFields :
        /\ SignFields[j].required
        /\ IsMine(SignFields[j], Me)
        /\ SignFields[j].id \notin signed } }

NoCall == [ field |-> Undefined, required |-> FALSE, closure |-> << >> ]

NoSign ==
    [ field |-> Undefined, required |-> FALSE, saved |-> FALSE, toasts |-> << >>,
      left |-> { } ]

\* the count handleFieldSign tests: getRequiredFieldsForMe() reads the session
\* of the render in which the handler was created, the one before the save
CountBefore(closure) == Len(getRequiredFieldsForMe(closure, Me))

\* lines 158-164: the toasts after the save and the refresh
SavedToasts(closure) ==
    << "Signature saved successfully" >>
    \o IF CountBefore(closure) = 1
       THEN << "All required fields completed! Document signing finished." >>
       ELSE << >>

FieldSignInit ==
    /\ nSigned = { }
    /\ nSession = SignSessionFields({ })
    /\ nPhase = "idle"
    /\ nCall = NoCall
    /\ hSign = NoSign

FieldSignIdle ==
    /\ nSigned = { }
    /\ nSession = SignSessionFields({ })
    /\ nPhase = "idle"
    /\ nCall = NoCall
    /\ hSign = NoSign

\* handleFieldClick (173-200) or handleSignatureSave (202-208) calls
\* handleFieldSign for a field the session shows unsigned and the signer's own
\* or shared: setSigning(true) and the POST of lines 137-148 is sent
CallFieldSign(i) ==
    /\ nPhase = "idle"
    /\ nSession[i].sigData = Undefined
    /\ IsMine(nSession[i], Me)
    /\ nCall' = [ field |-> nSession[i].id, required |-> nSession[i].required,
                  closure |-> nSession ]
    /\ nPhase' = "posting"
    /\ UNCHANGED << nSigned, nSession, hSign, notFieldSign >>

\* the server stores the signature and answers ok; line 156 fetches the session
SaveStored ==
    /\ nPhase = "posting"
    /\ nCall.field \notin nSigned
    /\ nSigned' = nSigned \cup { nCall.field }
    /\ nPhase' = "refreshing"
    /\ UNCHANGED << nSession, nCall, hSign, notFieldSign >>

\* !response.ok (150-153): the error is thrown and shown, nothing else happens
SaveRefused ==
    /\ nPhase = "posting"
    /\ hSign' = [ field |-> nCall.field, required |-> nCall.required, saved |-> FALSE,
                  toasts |-> << "Failed to save signature" >>,
                  left |-> RequiredLeft(nSigned) ]
    /\ nPhase' = "idle"
    /\ nCall' = NoCall
    /\ UNCHANGED << nSigned, nSession, notFieldSign >>

\* fetchSigningSession succeeds (setSession), then lines 158-164
RefreshOk ==
    /\ nPhase = "refreshing"
    /\ nSession' = SignSessionFields(nSigned)
    /\ hSign' = [ field |-> nCall.field, required |-> nCall.required, saved |-> TRUE,
                  toasts |-> SavedToasts(nCall.closure),
                  left |-> RequiredLeft(nSigned) ]
    /\ nPhase' = "idle"
    /\ nCall' = NoCall
    /\ UNCHANGED << nSigned, notFieldSign >>

\* fetchSigningSession fails: it catches its own error (setError), so
\* handleFieldSign goes on with lines 158-164 all the same
RefreshFails ==
    /\ nPhase = "refreshing"
    /\ hSign' = [ field |-> nCall.field, required |-> nCall.required, saved |-> TRUE,
                  toasts |-> SavedToasts(nCall.closure),
                  left |-> RequiredLeft(nSigned) ]
    /\ nPhase' = "idle"
    /\ nCall' = NoCall
    /\ UNCHANGED << nSigned, nSession, notFieldSign >>

\* another signer's signature is stored: on that signer's field or a shared one
OtherSigns(i) ==
    /\ SignFields[i].signerId # Me
    /\ SignFields[i].id \notin nSigned
    /\ nSigned' = nSigned \cup { SignFields[i].id }
    /\ UNCHANGED << nSession, nPhase, nCall, hSign, notFieldSign >>

CallFieldSignSome == \E i \in DOMAIN SignFields : CallFieldSign(i)
OtherSignsSome == \E i \in DOMAIN SignFields : OtherSigns(i)

FieldSignNext ==
    \/ CallFieldSignSome
    \/ SaveStored
    \/ SaveRefused
    \/ RefreshOk
    \/ RefreshFails
    \/ OtherSignsSome

AllCompletedShown ==
    \E k \in DOMAIN hSign.toasts :
        hSign.toasts[k] = "All required fields completed! Document signing finished."

LastRequiredAnnounced ==
    ~(AllCompletedShown /\ hSign.required /\ hSign.left = { })

----------------------------------------------------------------------------
(* What handleSave of the signer setup modal persists                       *)
(* (src/signer-setup-modal.tsx 161-214): the modal is opened on a document  *)
(* in setup, the list is edited with every operation the modal offers, and  *)
(* the list is saved.                                                       *)

\* the document's signers are PENDING and its sequential-signing setting is
\* on or off; the modal's switch starts off whatever the document's setting
SignerPersistInit ==
    /\ rSigners \in { l \in ExistingLists : /\ Len(l) < MaxSaveSigners
                                            /\ \A i \in DOMAIN l : l[i].status = "PENDING" }
    /\ rSequential \in BOOLEAN
    /\ ModalOpened(rSigners)

PersistEmails == { "a@x.com", "b@x.com" }
PersistNames == { "Ann Lee" }

EditEmailToPersist == \E k \in 1 .. MaxSaveSigners, e \in PersistEmails : EditEmail(k, e)
EditNameToPersist == \E k \in 1 .. MaxSaveSigners, n \in PersistNames : EditName(k, n)
RemoveToPersist == \E k \in 1 .. MaxSaveSigners : Remove(k)
MoveUpToPersist == \E k \in 1 .. MaxSaveSigners : MoveUp(k)
MoveDownToPersist == \E k \in 1 .. MaxSaveSigners : MoveDown(k)

SignerPersistNext ==
    \/ AddManualToSave
    \/ EditEmailToPersist
    \/ EditNameToPersist
    \/ RemoveToPersist
    \/ MoveUpToPersist
    \/ MoveDownToPersist
    \/ ToggleSigningOrder
    \/ Save
    \/ PostStored
    \/ PostFails
    \/ Patched
    \/ PatchRefused
    \/ PatchThrows
    \/ Cancel
    \/ Reopen

\* C28: handleSave reports success only if every request it issued
\* succeeded, each signer POST and the document PATCH; if any of them fails,
\* failure is reported (and the modal, which handleSave closes only after
\* reporting success, stays open).
C28_SuccessOnlyIfAllRequestsSucceeded ==
    /\ hModal.reported = "success" => ~hModal.failed
    /\ hModal.failed => hModal.reported = "failure"

\* a refused or failed signer POST is reported as a failure, modal open
PostFailureReported ==
    (hModal.failed /\ mPhase = "editing" /\ hSave.called)
    => hModal.reported = "failure"

\* handleSave got through all its requests and reported success
SavedWell == hModal.reported = "success" /\ ~hModal.failed

\* C29: saving signers leaves the document's sequential-signing setting as
\* it was unless the user toggled the switch in that modal session: a step
\* of handleSave taken with the switch untouched does not change the setting.
C29_SettingKeptUnlessToggled ==
    [][ (mPhase = "patching" /\ ~hModal.toggled) => rSequential' = rSequential ]_vars

\* email, name and signing order of each signer of a list
Entries(signers) ==
    { [ email |-> signers[i].signerEmail, name |-> signers[i].signerName,
        order |-> signers[i].signingOrder ] : i \in DOMAIN signers }

\* C30: after a successful handleSave the stored signer set is the list the
\* modal showed: the same signers with signing orders 1..N and no order
\* twice, whatever was added, removed or moved before the save.
C30_StoredSetIsListShown ==
    (SavedWell /\ mPhase = "closed") =>
        /\ Entries(rSigners) = Entries(mSigners)
        /\ Len(rSigners) = Len(mSigners)
        /\ { rSigners[i].signingOrder : i \in DOMAIN rSigners } = 1 .. Len(rSigners)

\* a save of added signers only does store the list shown
AddedOnlyStored ==
    ~( /\ SavedWell
       /\ mPhase = "closed"
       /\ Len(mSigners) = 2
       /\ Entries(rSigners) = Entries(mSigners) )


\* every stored signer is one the list shows: a removed signer is removed
RemovalStored ==
    (SavedWell /\ mPhase = "closed") =>
        \A i \in DOMAIN rSigners :
            \E k \in DOMAIN mSigners :
                \/ mSigners[k].id = rSigners[i].id
                \/ /\ mSigners[k].id = Undefined
                   /\ mSigners[k].signerEmail = rSigners[i].signerEmail

\* every stored signer the list shows has the signing order the list shows
ReorderStored ==
    (SavedWell /\ mPhase = "closed") =>
        \A i \in DOMAIN rSigners, k \in DOMAIN mSigners :
            mSigners[k].id = rSigners[i].id
            => mSigners[k].signingOrder = rSigners[i].signingOrder

----------------------------------------------------------------------------
(* Specifications *)

InitValidate      == ValidateInit /\ UtilIdle /\ EmbedIdle /\ ClickIdle /\ SigningIdle /\ DropIdle /\ SetupIdle /\ SignersIdle /\ PadIdle /\ IntegrityIdle /\ FieldSignIdle
InitFields        == UtilInit /\ ValidateIdle /\ EmbedIdle /\ ClickIdle /\ SigningIdle /\ DropIdle /\ SetupIdle /\ SignersIdle /\ PadIdle /\ IntegrityIdle /\ FieldSignIdle
InitEmbed         == EmbedInit /\ ValidateIdle /\ UtilIdle /\ ClickIdle /\ SigningIdle /\ DropIdle /\ SetupIdle /\ SignersIdle /\ PadIdle /\ IntegrityIdle /\ FieldSignIdle
InitClick         == ClickInit /\ ValidateIdle /\ UtilIdle /\ EmbedIdle /\ SigningIdle /\ DropIdle /\ SetupIdle /\ SignersIdle /\ PadIdle /\ IntegrityIdle /\ FieldSignIdle
InitSigning       == SigningInit /\ ValidateIdle /\ UtilIdle /\ EmbedIdle /\ ClickIdle /\ DropIdle /\ SetupIdle /\ SignersIdle /\ PadIdle /\ IntegrityIdle /\ FieldSignIdle
InitDrop          == DropInit /\ ValidateIdle /\ UtilIdle /\ EmbedIdle /\ ClickIdle /\ SigningIdle /\ SetupIdle /\ SignersIdle /\ PadIdle /\ IntegrityIdle /\ FieldSignIdle
InitSetup         == SetupInit /\ ValidateIdle /\ UtilIdle /\ EmbedIdle /\ ClickIdle /\ SigningIdle /\ DropIdle /\ SignersIdle /\ PadIdle /\ IntegrityIdle /\ FieldSignIdle
InitSigners       == SignersInit /\ ValidateIdle /\ UtilIdle /\ EmbedIdle /\ ClickIdle /\ SigningIdle /\ DropIdle /\ SetupIdle /\ PadIdle /\ IntegrityIdle /\ FieldSignIdle
InitSignerSave    == SignerSaveInit /\ ValidateIdle /\ UtilIdle /\ EmbedIdle /\ ClickIdle /\ SigningIdle /\ DropIdle /\ SetupIdle /\ PadIdle /\ IntegrityIdle /\ FieldSignIdle
InitPad           == PadInit /\ ValidateIdle /\ UtilIdle /\ EmbedIdle /\ ClickIdle /\ SigningIdle /\ DropIdle /\ SetupIdle /\ SignersIdle /\ IntegrityIdle /\ FieldSignIdle
InitIntegrity     == IntegrityInit /\ ValidateIdle /\ UtilIdle /\ EmbedIdle /\ ClickIdle /\ SigningIdle /\ DropIdle /\ SetupIdle /\ SignersIdle /\ PadIdle /\ FieldSignIdle
InitEmbedBox      == EmbedBoxInit /\ ValidateIdle /\ UtilIdle /\ ClickIdle /\ SigningIdle /\ DropIdle /\ SetupIdle /\ SignersIdle /\ PadIdle /\ IntegrityIdle /\ FieldSignIdle
InitFieldSign     == FieldSignInit /\ ValidateIdle /\ UtilIdle /\ EmbedIdle /\ ClickIdle /\ SigningIdle /\ DropIdle /\ SetupIdle /\ SignersIdle /\ PadIdle /\ IntegrityIdle
InitSignerPersist == SignerPersistInit /\ ValidateIdle /\ UtilIdle /\ EmbedIdle /\ ClickIdle /\ SigningIdle /\ DropIdle /\ SetupIdle /\ PadIdle /\ IntegrityIdle /\ FieldSignIdle

SpecValidate      == InitValidate /\ [][ValidateNext]_vars
SpecFields        == InitFields /\ [][UtilNext]_vars
SpecEmbed         == InitEmbed /\ [][EmbedNext]_vars
SpecClick         == InitClick /\ [][ClickNext]_vars
SpecSigning       == InitSigning /\ [][SigningNext]_vars
SpecDrop          == InitDrop /\ [][DropNext]_vars
SpecSetup         == InitSetup /\ [][SetupNext]_vars
SpecSigners       == InitSigners /\ [][SignersNext]_vars
SpecSignerSave    == InitSignerSave /\ [][SignerSaveNext]_vars
SpecPad           == InitPad /\ [][PadNext]_vars
SpecIntegrity     == InitIntegrity /\ [][IntegrityNext]_vars
SpecEmbedBox      == InitEmbedBox /\ [][EmbedNext]_vars
SpecFieldSign     == InitFieldSign /\ [][FieldSignNext]_vars
SpecSignerPersist == InitSignerPersist /\ [][SignerPersistNext]_vars

====
